---- MODULE Spec2Model ----
(***************************************************************************)
(* Model of the tag automaton of easy-stream-formatter                     *)
(* (src/src/automaton.h, src/src/format.h, src/src/syntax.h,               *)
(* src/src/tag_syntax.h, src/src/ansi.h).                                  *)
(*                                                                         *)
(* A character is a one-character string; the control characters and the  *)
(* zero byte have names ("NUL", "LF", ...).  A std::string is a sequence   *)
(* of characters.  What the automaton writes to stdout is a sequence of    *)
(* items: a literal byte, or one control sequence with its SGR codes.      *)
(***************************************************************************)
EXTENDS Integers, Sequences, FiniteSets, TLC

VARIABLES automaton, twin, trace, fed, plan, phase, process

vars == <<automaton, twin, trace, fed, plan, phase, process>>

(***************************************************************************)
(* Bounds of the model.                                                    *)
(***************************************************************************)
MaxFree == 3
MaxText == 2

MaxBody == 2

MaxClose == 3

MaxSpace == 2

MaxPlain == 3

MaxAny == 4
MaxGrammar == 3
MaxArgs == 2
MaxOptions == 2
MaxAfter == 2
MaxConserve == 3

(***************************************************************************)
(* ansi.h                                                                  *)
(***************************************************************************)
FG_BASE == 30
BG_BASE == 40
BRIGHT_OFFSET == 60

ansi_RESET == 0
ansi_BOLD == 1
ansi_DIM == 2
ansi_ITALIC == 3
ansi_UNDERLINE == 4
ansi_BLINK == 6
ansi_REVERSED == 7
ansi_STRIKETHROUGH == 9
ansi_DOUBLE_UNDERLINE == 21
ansi_OVERLINE == 53

(***************************************************************************)
(* syntax.h                                                                *)
(***************************************************************************)
DEFAULT == 9
CURRENT == 10

COLOR_CHARS_LOWER == <<"k", "r", "g", "y", "b", "m", "c", "w">>
COLOR_CHARS_UPPER == <<"K", "R", "G", "Y", "B", "M", "C", "W">>

ESCAPE_CHAR == "\\"
TRIM_ESCAPE == "#"
COLOR_CURRENT == ";"
COLOR_DEFAULT == "d"
RESET_CHAR == "0"

style_REVERSED == "%"
style_BLINK == "!"
style_BOLD == "*"
style_ITALIC == "/"
style_UNDERLINE == "_"
style_OVERLINE == "^"
style_DOUBLE_UNDERLINE == "="
style_STRIKETHROUGH == "~"
style_DIM == "."

REVERSED_BIT == 1
BLINK_BIT == 2
BOLD_BIT == 4
ITALIC_BIT == 8
UNDERLINE_BIT == 16
OVERLINE_BIT == 32
DOUBLE_UNDERLINE_BIT == 64
STRIKETHROUGH_BIT == 128
DIM_BIT == 256

(***************************************************************************)
(* The characters that are not printable in a TLA+ string.                 *)
(***************************************************************************)
NUL == "NUL"
BEL == "BEL"
BS == "BS"
CR == "CR"
LF == "LF"
FF == "FF"
HT == "HT"
VT == "VT"

\* std::isspace in the C locale: space, \t, \n, \v, \f, \r
isspace(c) == c \in {" ", HT, LF, VT, FF, CR}

(***************************************************************************)
(* Integer arithmetic of the C++ operators on uint16_t operands.           *)
(***************************************************************************)
Bit(x, k) == (x \div (2 ^ k)) % 2

BitAnd(x, y) ==
    LET b(k) == (Bit(x, k) * Bit(y, k)) * (2 ^ k)
    IN  b(0) + b(1) + b(2) + b(3) + b(4) + b(5) + b(6) + b(7) + b(8)
      + b(9) + b(10) + b(11) + b(12) + b(13) + b(14) + b(15)

BitOr(x, y) == x + y - BitAnd(x, y)

\* push_format with | where it has ^
BitXorAsOr(x, y) == BitOr(x, y)

BitXor(x, y) ==
    LET b(k) == ((Bit(x, k) + Bit(y, k)) % 2) * (2 ^ k)
    IN  b(0) + b(1) + b(2) + b(3) + b(4) + b(5) + b(6) + b(7) + b(8)
      + b(9) + b(10) + b(11) + b(12) + b(13) + b(14) + b(15)

Bool(b) == IF b THEN 1 ELSE 0

Min(x, y) == IF x <= y THEN x ELSE y

(***************************************************************************)
(* std::string helpers.  Positions are 0-based as in C++.                  *)
(***************************************************************************)
\* s.substr(pos, n): at most n characters from position pos (pos <= size)
substr(s, pos, n) == SubSeq(s, pos + 1, Min(pos + n, Len(s)))

\* s.substr(pos): the rest of s from position pos
substr_from(s, pos) == SubSeq(s, pos + 1, Len(s))

\* s.find(c) of a string_view: the 0-based position of c, or -1 for npos
find(s, c) ==
    IF \E i \in 1..Len(s) : s[i] = c
    THEN (CHOOSE i \in 1..Len(s) : s[i] = c /\ \A j \in 1..(i - 1) : s[j] # c) - 1
    ELSE -1

\* s.c_str() as fputs reads it: the characters before the first zero byte
c_str(s) ==
    IF \E i \in 1..Len(s) : s[i] = NUL
    THEN SubSeq(s, 1, (CHOOSE i \in 1..Len(s) :
                          s[i] = NUL /\ \A j \in 1..(i - 1) : s[j] # NUL) - 1)
    ELSE s

(***************************************************************************)
(* format.h: struct Format.  The bit-fields hold 0 or 1; the colours are   *)
(* 4 bits wide.                                                            *)
(***************************************************************************)
Format_default ==
    [fg_color |-> DEFAULT, fg_bright |-> 0, bg_color |-> DEFAULT, bg_bright |-> 0,
     reversed |-> 0, blink |-> 0, bold |-> 0, italic |-> 0, underline |-> 0,
     overline |-> 0, double_underline |-> 0, strikethrough |-> 0, dim |-> 0,
     reset |-> 0, valid |-> 0]

Format_initial ==
    [Format_default EXCEPT !.fg_color = DEFAULT, !.bg_color = DEFAULT,
                           !.reset = 1, !.valid = 1]

Format_empty ==
    [Format_default EXCEPT !.fg_color = CURRENT, !.bg_color = CURRENT, !.valid = 1]

set_fg(f, c, bright) == [f EXCEPT !.fg_color = c % 16, !.fg_bright = Bool(bright)]

set_bg(f, c, bright) == [f EXCEPT !.bg_color = c % 16, !.bg_bright = Bool(bright)]

style_bits(f) ==
      f.reversed * (2 ^ 0) + f.blink * (2 ^ 1) + f.bold * (2 ^ 2) + f.italic * (2 ^ 3)
    + f.underline * (2 ^ 4) + f.overline * (2 ^ 5) + f.double_underline * (2 ^ 6)
    + f.strikethrough * (2 ^ 7) + f.dim * (2 ^ 8)

set_style_bits(f, bits) ==
    [f EXCEPT !.reversed = Bit(bits, 0), !.blink = Bit(bits, 1), !.bold = Bit(bits, 2),
              !.italic = Bit(bits, 3), !.underline = Bit(bits, 4),
              !.overline = Bit(bits, 5), !.double_underline = Bit(bits, 6),
              !.strikethrough = Bit(bits, 7), !.dim = Bit(bits, 8)]

\* Format::to_ansi: the SGR codes between "ESC [" and "m", in the order written
\* what the model writes in place of the codes when assert(valid && reset) fails
AssertionFailed == <<"assert(valid && reset)">>

\* a rendering that lists blink before underline
to_ansi_blink_first(f) ==
    LET opt(flag, code) == IF flag = 1 THEN <<code>> ELSE <<>>
    IN  <<ansi_RESET>>
        \o opt(f.bold, ansi_BOLD) \o opt(f.dim, ansi_DIM) \o opt(f.italic, ansi_ITALIC)
        \o opt(f.blink, ansi_BLINK) \o opt(f.underline, ansi_UNDERLINE)
        \o opt(f.reversed, ansi_REVERSED) \o opt(f.strikethrough, ansi_STRIKETHROUGH)
        \o opt(f.double_underline, ansi_DOUBLE_UNDERLINE) \o opt(f.overline, ansi_OVERLINE)
        \o <<FG_BASE + f.fg_color + (IF f.fg_bright = 1 THEN BRIGHT_OFFSET ELSE 0)>>
        \o <<BG_BASE + f.bg_color + (IF f.bg_bright = 1 THEN BRIGHT_OFFSET ELSE 0)>>

\* a rendering that ignores the brightness of the background
to_ansi_dull_background(f) ==
    LET opt(flag, code) == IF flag = 1 THEN <<code>> ELSE <<>>
    IN  <<ansi_RESET>>
        \o opt(f.bold, ansi_BOLD) \o opt(f.dim, ansi_DIM) \o opt(f.italic, ansi_ITALIC)
        \o opt(f.underline, ansi_UNDERLINE) \o opt(f.blink, ansi_BLINK)
        \o opt(f.reversed, ansi_REVERSED) \o opt(f.strikethrough, ansi_STRIKETHROUGH)
        \o opt(f.double_underline, ansi_DOUBLE_UNDERLINE) \o opt(f.overline, ansi_OVERLINE)
        \o <<FG_BASE + f.fg_color + (IF f.fg_bright = 1 THEN BRIGHT_OFFSET ELSE 0)>>
        \o <<BG_BASE + f.bg_color>>

to_ansi(f) ==
    LET opt(flag, code) == IF flag = 1 THEN <<code>> ELSE <<>>
    IN  IF ~(f.valid = 1 /\ f.reset = 1) THEN AssertionFailed ELSE
        <<ansi_RESET>>
        \o opt(f.bold, ansi_BOLD)
        \o opt(f.dim, ansi_DIM)
        \o opt(f.italic, ansi_ITALIC)
        \o opt(f.underline, ansi_UNDERLINE)
        \o opt(f.blink, ansi_BLINK)
        \o opt(f.reversed, ansi_REVERSED)
        \o opt(f.strikethrough, ansi_STRIKETHROUGH)
        \o opt(f.double_underline, ansi_DOUBLE_UNDERLINE)
        \o opt(f.overline, ansi_OVERLINE)
        \o <<FG_BASE + f.fg_color + (IF f.fg_bright = 1 THEN BRIGHT_OFFSET ELSE 0)>>
        \o <<BG_BASE + f.bg_color + (IF f.bg_bright = 1 THEN BRIGHT_OFFSET ELSE 0)>>

(***************************************************************************)
(* tag_syntax.h: struct TagSyntax and its presets.                         *)
(***************************************************************************)
TagSyntax(n, ot, oe, ct) == [name |-> n, open_tag |-> ot, open_end |-> oe, close_tag |-> ct]

CLASSIC == TagSyntax("classic", <<"{">>, <<"-", "-">>, <<"-", "-", "}">>)
BRACKET == TagSyntax("bracket", <<"[">>, <<"]">>, <<"[", "/", "]">>)
XML == TagSyntax("xml", <<"<">>, <<">">>, <<"<", "/", ">">>)

ALL_STYLES == {CLASSIC, BRACKET, XML}

\* a null pointer other than a pointer to a TagSyntax or to a string
nullptr == "nullptr"

\* a null pointer to a TagSyntax
null_syntax == [null |-> TRUE]

\* a null const char*: no sequence of characters
null_string == <<nullptr>>

strlen(s) == Len(s)

\* TagSyntax::find: the preset of that name
find_syntax(name) ==
    IF \E s \in ALL_STYLES : s.name = name
    THEN CHOOSE s \in ALL_STYLES : s.name = name
    ELSE null_syntax

\* a from_args that only tests the pointers
from_args_unchecked(opening, separator, closing) ==
    IF opening = null_string \/ separator = null_string \/ closing = null_string
    THEN null_syntax
    ELSE TagSyntax("custom", opening, separator, closing)

\* TagSyntax::from_args: a custom syntax, or a null pointer if a delimiter is
\* missing or empty
from_args(opening, separator, closing) ==
    IF opening = null_string \/ separator = null_string \/ closing = null_string
    THEN null_syntax
    ELSE IF strlen(opening) = 0 \/ strlen(separator) = 0 \/ strlen(closing) = 0
    THEN null_syntax
    ELSE TagSyntax("custom", opening, separator, closing)

(***************************************************************************)
(* Items of the output stream.                                             *)
(***************************************************************************)
Lit(c) == [ansi |-> FALSE, ch |-> c, codes |-> <<>>]
Ansi(codes) == [ansi |-> TRUE, ch |-> "", codes |-> codes]
Lits(s) == [i \in 1..Len(s) |-> Lit(s[i])]

(***************************************************************************)
(* automaton.h: class FormatterAutomaton.  An automaton is a record of the *)
(* object's fields (strip_, escape_, sanitize_, syntax_, state_, buffer_,  *)
(* format_stack_, bracket_format_, parsed_colors_, parsed_styles_) and of  *)
(* out, what it has written to stdout.  The top of format_stack_ is its    *)
(* last element.  A member function that returns a value is an operator    *)
(* giving [self |-> the object afterwards, ret |-> the value].             *)
(***************************************************************************)
top(a) == a.format_stack_[Len(a.format_stack_)]

\* emit_ansi without its test of strip_: the control code is written in strip mode too
emit_ansi_unconditional(a, ansi) == [a EXCEPT !.out = Append(@, Ansi(ansi))]

emit_ansi(a, ansi) ==
    IF ~a.strip_ THEN [a EXCEPT !.out = Append(@, Ansi(ansi))] ELSE a

emit_char(a, c) == [a EXCEPT !.out = Append(@, Lit(c))]

buffer_char(a, c) == [a EXCEPT !.buffer_ = Append(@, c)]

clear_buffer(a) == [a EXCEPT !.buffer_ = <<>>]

\* a flush that writes nothing and keeps the buffer
flush_buffer_never(a) == a

\* fputs(buffer_.c_str(), stdout) writes the buffer up to its first zero byte
flush_buffer(a) ==
    IF a.buffer_ # <<>>
    THEN [a EXCEPT !.out = @ \o Lits(c_str(a.buffer_)), !.buffer_ = <<>>]
    ELSE a

buffer_ends_with(a, suffix) ==
    IF Len(a.buffer_) < Len(suffix)
    THEN FALSE
    ELSE substr(a.buffer_, Len(a.buffer_) - Len(suffix), Len(suffix)) = suffix

buffer_remove_suffix(a, len) ==
    IF len <= Len(a.buffer_)
    THEN [a EXCEPT !.buffer_ = SubSeq(@, 1, Len(@) - len)]
    ELSE a

could_match_prefix(a, pattern) ==
    \E i \in 1..Min(Len(pattern), Len(a.buffer_)) :
        substr_from(a.buffer_, Len(a.buffer_) - i) = substr(pattern, 0, i)

\* a push of the relative spec itself instead of the snapshot computed from it
push_format_mask(a, mask) ==
    [self |-> [a EXCEPT !.format_stack_ = Append(@, mask)], ret |-> to_ansi(mask)]

\* a push whose background follows the test of the foreground
push_format_coupled(a, mask) ==
    LET f0 == IF mask.reset = 1 THEN Format_initial ELSE top(a)
        f1 == set_style_bits(f0, BitXor(style_bits(f0), style_bits(mask)))
        f2 == IF mask.fg_color # CURRENT
              THEN [f1 EXCEPT !.fg_color = mask.fg_color, !.fg_bright = mask.fg_bright]
              ELSE f1
        format == IF mask.fg_color # CURRENT /\ mask.bg_color # CURRENT
                  THEN [f2 EXCEPT !.bg_color = mask.bg_color, !.bg_bright = mask.bg_bright]
                  ELSE f2
    IN  [self |-> [a EXCEPT !.format_stack_ = Append(@, format)], ret |-> to_ansi(format)]

\* a push that overwrites the top instead of adding an entry
push_format_in_place(a, mask) ==
    LET f0 == IF mask.reset = 1 THEN Format_initial ELSE top(a)
        f1 == set_style_bits(f0, BitXor(style_bits(f0), style_bits(mask)))
        f2 == IF mask.fg_color # CURRENT
              THEN [f1 EXCEPT !.fg_color = mask.fg_color, !.fg_bright = mask.fg_bright]
              ELSE f1
        format == IF mask.bg_color # CURRENT
                  THEN [f2 EXCEPT !.bg_color = mask.bg_color, !.bg_bright = mask.bg_bright]
                  ELSE f2
    IN  [self |-> [a EXCEPT !.format_stack_ = [@ EXCEPT ![Len(@)] = format]],
         ret |-> to_ansi(format)]

\* a push that overrides the colours and sets a brightness flag but never clears it
push_format_keeps_bright(a, mask) ==
    LET f0 == IF mask.reset = 1 THEN Format_initial ELSE top(a)
        f1 == set_style_bits(f0, BitXor(style_bits(f0), style_bits(mask)))
        f2 == IF mask.fg_color # CURRENT
              THEN [f1 EXCEPT !.fg_color = mask.fg_color,
                              !.fg_bright = IF mask.fg_bright = 1 THEN 1 ELSE @]
              ELSE f1
        format == IF mask.bg_color # CURRENT
                  THEN [f2 EXCEPT !.bg_color = mask.bg_color,
                                  !.bg_bright = IF mask.bg_bright = 1 THEN 1 ELSE @]
                  ELSE f2
    IN  [self |-> [a EXCEPT !.format_stack_ = Append(@, format)], ret |-> to_ansi(format)]

push_format(a, mask) ==
    LET f0 == IF mask.reset = 1 THEN Format_initial ELSE top(a)
        f1 == set_style_bits(f0, BitXor(style_bits(f0), style_bits(mask)))
        f2 == IF mask.fg_color # CURRENT
              THEN [f1 EXCEPT !.fg_color = mask.fg_color, !.fg_bright = mask.fg_bright]
              ELSE f1
        format == IF mask.bg_color # CURRENT
                  THEN [f2 EXCEPT !.bg_color = mask.bg_color, !.bg_bright = mask.bg_bright]
                  ELSE f2
    IN  [self |-> [a EXCEPT !.format_stack_ = Append(@, format)], ret |-> to_ansi(format)]

pop_format(a) ==
    LET a1 == IF Len(a.format_stack_) > 1
              THEN [a EXCEPT !.format_stack_ = SubSeq(@, 1, Len(@) - 1)]
              ELSE a
    IN  [self |-> a1, ret |-> to_ansi(top(a1))]

\* a caller that pops without looking at the depth
always_open_format(a) == TRUE

\* a caller that never finds an open format
never_open_format(a) == FALSE

\* format_stack_.size() > 1, the test every caller makes before it pops
has_open_format(a) == Len(a.format_stack_) > 1

\* emit_ansi(push_format(mask)) and emit_ansi(pop_format()), as every caller writes them
emit_push(a, mask) == LET r == push_format(a, mask) IN emit_ansi(r.self, r.ret)

emit_pop(a) == LET r == pop_format(a) IN emit_ansi(r.self, r.ret)

finish_bracket_parse(a, success) ==
    LET a1 == IF success THEN clear_buffer(a) ELSE flush_buffer(a)
    IN  [a1 EXCEPT !.parsed_colors_ = 0, !.parsed_styles_ = 0,
                   !.bracket_format_ = Format_empty, !.state_ = "DEFAULT"]

\* a colour parser that writes every colour into the foreground
try_parse_color_foreground(a, c) ==
    LET lower == find(COLOR_CHARS_LOWER, c)
        upper == find(COLOR_CHARS_UPPER, c)
        known == lower # -1 \/ upper # -1 \/ c = COLOR_DEFAULT \/ c = COLOR_CURRENT
        color == IF lower # -1 THEN lower
                 ELSE IF upper # -1 THEN upper
                 ELSE IF c = COLOR_DEFAULT THEN DEFAULT
                 ELSE CURRENT
        bright == lower = -1 /\ upper # -1
    IN  IF ~known THEN [self |-> a, ret |-> FALSE]
        ELSE IF a.parsed_colors_ >= 2 THEN [self |-> a, ret |-> FALSE]
        ELSE [self |-> [a EXCEPT !.bracket_format_ = set_fg(@, color, bright),
                                 !.parsed_colors_ = @ + 1],
              ret |-> TRUE]

try_parse_color(a, c) ==
    LET lower == find(COLOR_CHARS_LOWER, c)
        upper == find(COLOR_CHARS_UPPER, c)
        known == lower # -1 \/ upper # -1 \/ c = COLOR_DEFAULT \/ c = COLOR_CURRENT
        color == IF lower # -1 THEN lower
                 ELSE IF upper # -1 THEN upper
                 ELSE IF c = COLOR_DEFAULT THEN DEFAULT
                 ELSE CURRENT
        bright == lower = -1 /\ upper # -1
    IN  IF ~known THEN [self |-> a, ret |-> FALSE]
        ELSE IF a.parsed_colors_ >= 2 THEN [self |-> a, ret |-> FALSE]
        ELSE [self |-> [a EXCEPT !.bracket_format_ =
                                     IF a.parsed_colors_ = 0
                                     THEN set_fg(@, color, bright)
                                     ELSE set_bg(@, color, bright),
                                 !.parsed_colors_ = @ + 1],
              ret |-> TRUE]

style_bit_of(c) ==
    CASE c = style_REVERSED -> REVERSED_BIT
      [] c = style_BLINK -> BLINK_BIT
      [] c = style_BOLD -> BOLD_BIT
      [] c = style_ITALIC -> ITALIC_BIT
      [] c = style_UNDERLINE -> UNDERLINE_BIT
      [] c = style_OVERLINE -> OVERLINE_BIT
      [] c = style_DOUBLE_UNDERLINE -> DOUBLE_UNDERLINE_BIT
      [] c = style_STRIKETHROUGH -> STRIKETHROUGH_BIT
      [] c = style_DIM -> DIM_BIT
      [] OTHER -> 0

\* a style parser whose reset token also drops the attributes read before it
try_parse_style_reset_clears(a, c) ==
    LET style_bit == style_bit_of(c)
    IN  IF c = RESET_CHAR
        THEN [self |-> [a EXCEPT !.bracket_format_ =
                                     [set_style_bits(@, 0) EXCEPT !.reset = 1]],
              ret |-> TRUE]
        ELSE IF style_bit = 0 THEN [self |-> a, ret |-> FALSE]
        ELSE IF BitAnd(a.parsed_styles_, style_bit) # 0 THEN [self |-> a, ret |-> FALSE]
        ELSE [self |-> [a EXCEPT !.parsed_styles_ = BitOr(@, style_bit),
                                 !.bracket_format_ =
                                     set_style_bits(@, BitOr(style_bits(@), style_bit))],
              ret |-> TRUE]

try_parse_style(a, c) ==
    LET style_bit == style_bit_of(c)
    IN  IF c = RESET_CHAR
        THEN [self |-> [a EXCEPT !.bracket_format_.reset = 1], ret |-> TRUE]
        ELSE IF style_bit = 0 THEN [self |-> a, ret |-> FALSE]
        ELSE IF BitAnd(a.parsed_styles_, style_bit) # 0 THEN [self |-> a, ret |-> FALSE]
        ELSE [self |-> [a EXCEPT !.parsed_styles_ = BitOr(@, style_bit),
                                 !.bracket_format_ =
                                     set_style_bits(@, BitOr(style_bits(@), style_bit))],
              ret |-> TRUE]

\* the character the escape letter c stands for, "" when c is no escape letter
escape_char_of(c) ==
    CASE c = ESCAPE_CHAR -> ESCAPE_CHAR
      [] c = "a" -> BEL
      [] c = "b" -> BS
      [] c = "r" -> CR
      [] c = "n" -> LF
      [] c = "f" -> FF
      [] c = "t" -> HT
      [] c = "v" -> VT
      [] OTHER -> ""

handle_escape(a, c) ==
    LET a1 == clear_buffer(a)
    IN  IF escape_char_of(c) # ""
        THEN [emit_char(a1, escape_char_of(c)) EXCEPT !.state_ = "DEFAULT"]
        ELSE IF c = TRIM_ESCAPE
        THEN [a1 EXCEPT !.state_ = "SKIP_WHITESPACE"]
        ELSE [flush_buffer(buffer_char(emit_char(a1, ESCAPE_CHAR), c))
                 EXCEPT !.state_ = "DEFAULT"]

handle_closing_tag(a0, c) ==
    LET a == buffer_char(a0, c)
        close_tag == a.syntax_.close_tag
    IN  IF buffer_ends_with(a, close_tag) /\ has_open_format(a)
        THEN [emit_pop(flush_buffer(buffer_remove_suffix(a, Len(close_tag))))
                 EXCEPT !.state_ = "DEFAULT"]
        ELSE IF substr(close_tag, 0, Len(a.buffer_)) = a.buffer_
        THEN a
        ELSE [flush_buffer(a) EXCEPT !.state_ = "DEFAULT"]

handle_opening_tag(a0, c) ==
    LET a == buffer_char(a0, c)
        open_tag == a.syntax_.open_tag
        close_tag == a.syntax_.close_tag
    IN  IF a.buffer_ = open_tag
        THEN IF close_tag = open_tag /\ has_open_format(a)
             THEN [emit_pop(clear_buffer(a)) EXCEPT !.state_ = "DEFAULT"]
             ELSE [a EXCEPT !.bracket_format_ = Format_empty, !.parsed_colors_ = 0,
                            !.parsed_styles_ = 0, !.state_ = "PARSE_OPENING_BRACKET"]
        ELSE IF substr(open_tag, 0, Len(a.buffer_)) = a.buffer_
        THEN a
        ELSE [flush_buffer(a) EXCEPT !.state_ = "DEFAULT"]

\* a tag body that takes every start of the close delimiter for a close, whether
\* or not the close delimiter begins with the open delimiter
handle_opening_bracket_any_close(a0, c) ==
    LET a == buffer_char(a0, c)
        open_tag == a.syntax_.open_tag
        open_end == a.syntax_.open_end
        close_tag == a.syntax_.close_tag
        close_prefix_len == Min(Len(a.buffer_), Len(close_tag))
        color == try_parse_color(a, c)
        style == try_parse_style(color.self, c)
    IN  IF buffer_ends_with(a, open_end)
        THEN finish_bracket_parse(emit_push(a, a.bracket_format_), TRUE)
        ELSE IF /\ Len(a.buffer_) >= Len(open_tag) + 1
                /\ could_match_prefix(a, close_tag)
        THEN IF buffer_ends_with(a, close_tag) /\ has_open_format(a)
             THEN [emit_pop(flush_buffer(buffer_remove_suffix(a, Len(close_tag))))
                      EXCEPT !.state_ = "DEFAULT"]
             ELSE [a EXCEPT !.state_ = "PARSE_CLOSING_TAG"]
        ELSE IF could_match_prefix(a, open_end)
        THEN a
        ELSE IF color.ret THEN color.self
        ELSE IF style.ret THEN style.self
        ELSE finish_bracket_parse(style.self, FALSE)

handle_opening_bracket(a0, c) ==
    LET a == buffer_char(a0, c)
        open_tag == a.syntax_.open_tag
        open_end == a.syntax_.open_end
        close_tag == a.syntax_.close_tag
        close_prefix_len == Min(Len(a.buffer_), Len(close_tag))
        color == try_parse_color(a, c)
        style == try_parse_style(color.self, c)
    IN  IF buffer_ends_with(a, open_end)
        THEN finish_bracket_parse(emit_push(a, a.bracket_format_), TRUE)
        ELSE IF /\ Len(close_tag) >= Len(open_tag)
                /\ substr(close_tag, 0, Len(open_tag)) = open_tag
                /\ close_prefix_len >= Len(open_tag) + 1
                /\ substr_from(a.buffer_, Len(a.buffer_) - close_prefix_len)
                       = substr(close_tag, 0, close_prefix_len)
        THEN IF buffer_ends_with(a, close_tag) /\ has_open_format(a)
             THEN [emit_pop(flush_buffer(buffer_remove_suffix(a, Len(close_tag))))
                      EXCEPT !.state_ = "DEFAULT"]
             ELSE [a EXCEPT !.state_ = "PARSE_CLOSING_TAG"]
        ELSE IF could_match_prefix(a, open_end)
        THEN a
        ELSE IF color.ret THEN color.self
        ELSE IF style.ret THEN style.self
        ELSE finish_bracket_parse(style.self, FALSE)

handle_default(a, c) ==
    LET open_tag == a.syntax_.open_tag
        close_tag == a.syntax_.close_tag
        tentative == Append(a.buffer_, c)
        b == buffer_char(a, c)
    IN  IF /\ Len(tentative) >= Len(close_tag)
           /\ substr_from(tentative, Len(tentative) - Len(close_tag)) = close_tag
           /\ has_open_format(a)
        THEN emit_pop(flush_buffer(
                 [a EXCEPT !.buffer_ = substr(tentative, 0, Len(tentative) - Len(close_tag))]))
        ELSE IF c = open_tag[1]
        THEN LET a1 == buffer_char(flush_buffer(a), c)
             IN  IF Len(open_tag) = 1
                 THEN IF close_tag = open_tag /\ has_open_format(a)
                      THEN emit_pop(clear_buffer(a1))
                      ELSE [a1 EXCEPT !.bracket_format_ = Format_empty,
                                      !.parsed_colors_ = 0, !.parsed_styles_ = 0,
                                      !.state_ = "PARSE_OPENING_BRACKET"]
                 ELSE [a1 EXCEPT !.state_ = "PARSE_OPENING_TAG"]
        ELSE IF buffer_ends_with(b, close_tag) /\ has_open_format(b)
        THEN emit_pop(flush_buffer(buffer_remove_suffix(b, Len(close_tag))))
        ELSE IF could_match_prefix(b, close_tag)
        THEN b
        ELSE flush_buffer(b)

\* an escape test that does not look at escape_
starts_escape_always(a, c) == c = ESCAPE_CHAR

\* an escape test that is made in DEFAULT only
starts_escape_in_default(a, c) == a.escape_ /\ c = ESCAPE_CHAR /\ a.state_ = "DEFAULT"

\* escape_ && c == syntax::ESCAPE_CHAR, the test accept makes before it dispatches
starts_escape(a, c) == a.escape_ /\ c = ESCAPE_CHAR

RECURSIVE accept(_, _)

\* a handler that swallows the character that ends the whitespace
handle_skip_whitespace_swallow(a, c) ==
    IF isspace(c) THEN a ELSE [a EXCEPT !.state_ = "DEFAULT"]

handle_skip_whitespace(a, c) ==
    IF isspace(c) THEN a ELSE accept([a EXCEPT !.state_ = "DEFAULT"], c)

accept(a, c) ==
    IF a.state_ = "PARSE_ESCAPE" THEN handle_escape(a, c)
    ELSE IF starts_escape(a, c)
    THEN [buffer_char(flush_buffer(a), c) EXCEPT !.state_ = "PARSE_ESCAPE"]
    ELSE CASE a.state_ = "SKIP_WHITESPACE" -> handle_skip_whitespace(a, c)
           [] a.state_ = "PARSE_CLOSING_TAG" -> handle_closing_tag(a, c)
           [] a.state_ = "PARSE_OPENING_TAG" -> handle_opening_tag(a, c)
           [] a.state_ = "PARSE_OPENING_BRACKET" -> handle_opening_bracket(a, c)
           [] OTHER -> handle_default(a, c)

\* FormatterAutomaton(strip, escape, sanitize, syntax)
constructor(strip, escape, sanitize, syntax) ==
    emit_ansi([strip_ |-> strip, escape_ |-> escape, sanitize_ |-> sanitize,
               syntax_ |-> syntax, state_ |-> "DEFAULT", buffer_ |-> <<>>,
               format_stack_ |-> <<Format_initial>>, bracket_format_ |-> Format_empty,
               parsed_colors_ |-> 0, parsed_styles_ |-> 0, out |-> <<>>],
              to_ansi(Format_initial))

\* a destructor that writes the code of the current style instead of the initial one
destructor_top(a) ==
    LET a1 == flush_buffer(a)
    IN  IF a.sanitize_ THEN emit_ansi(a1, to_ansi(top(a1))) ELSE a1

\* ~FormatterAutomaton()
destructor(a) ==
    LET a1 == flush_buffer(a)
    IN  IF a.sanitize_ THEN emit_ansi(a1, to_ansi(Format_initial)) ELSE a1

(***************************************************************************)
(* The driver (main): it constructs one automaton for a unit of input,     *)
(* feeds it the unit's characters in order and destroys it when the unit   *)
(* ends.  plan[i] is the set of characters the i-th input character is     *)
(* drawn from, fed the characters consumed so far, trace[i + 1] the        *)
(* automaton after i characters.  twin is a second automaton built with    *)
(* the opposite strip flag and fed the same characters.                    *)
(***************************************************************************)
Chars(s) == {s[i] : i \in 1..Len(s)}

DelimChars(syntax) == Chars(syntax.open_tag) \cup Chars(syntax.open_end) \cup Chars(syntax.close_tag)

Singletons(s) == [i \in 1..Len(s) |-> {s[i]}]

Free(n, alphabet) == [i \in 1..n |-> alphabet]

\* an open tag whose body characters are drawn from the sets of body
OpenTag(syntax, body) == Singletons(syntax.open_tag) \o body \o Singletons(syntax.open_end)

EscapeChars == {ESCAPE_CHAR, "n", TRIM_ESCAPE, " "}

Alphabet(syntax, escape) ==
    DelimChars(syntax) \cup {"x", NUL}
        \cup (IF escape THEN EscapeChars ELSE {"r", style_BOLD})

\* what precedes the free part of an input: nothing, an open tag with an empty or
\* a one-character body, an open tag and one character of text, or an open tag
\* that is not finished
Prefixes(syntax) ==
    {<<>>, OpenTag(syntax, <<>>), OpenTag(syntax, <<{"r", style_BOLD}>>),
     OpenTag(syntax, <<{"r"}>>) \o <<{"x"}>>,
     Singletons(syntax.open_tag) \o <<{"r"}, {"r", style_BOLD}>>}

FreePlans(syntax, escape) ==
    {prefix \o Free(MaxFree, Alphabet(syntax, escape)) : prefix \in Prefixes(syntax)}

\* main's own state while one unit of input is looked at in isolation: no command
\* line, the options already read
Idle ==
    [pc |-> "unit", argv |-> <<>>, optind |-> 1, f_strip |-> 0, f_escape |-> 0,
     f_no_sanitize |-> 0, istream |-> "stdin", input |-> <<>>, separator |-> <<>>,
     stdout |-> <<>>, stderr |-> <<>>, status |-> -1]

Start(strip, escape, sanitize, syntax, p) ==
    /\ automaton = constructor(strip, escape, sanitize, syntax)
    /\ twin = constructor(~strip, escape, sanitize, syntax)
    /\ trace = <<constructor(strip, escape, sanitize, syntax)>>
    /\ fed = <<>>
    /\ plan = p
    /\ phase = "running"
    /\ process = Idle

Init ==
    \E strip \in BOOLEAN, escape \in BOOLEAN, sanitize \in BOOLEAN, syntax \in ALL_STYLES :
        \E p \in FreePlans(syntax, escape) : Start(strip, escape, sanitize, syntax, p)

Accept ==
    /\ phase = "running"
    /\ Len(fed) < Len(plan)
    /\ \E c \in plan[Len(fed) + 1] :
           /\ automaton' = accept(automaton, c)
           /\ twin' = accept(twin, c)
           /\ trace' = Append(trace, accept(automaton, c))
           /\ fed' = Append(fed, c)
    /\ UNCHANGED <<plan, phase, process>>

Destroy ==
    /\ phase = "running"
    /\ automaton' = destructor(automaton)
    /\ twin' = destructor(twin)
    /\ phase' = "destroyed"
    /\ UNCHANGED <<trace, fed, plan, process>>

Next == Accept \/ Destroy

Spec == Init /\ [][Next]_vars

(***************************************************************************)
(* Vocabulary of the properties.                                           *)
(***************************************************************************)
IsLit(item) == ~item.ansi

IsAnsi(item) == item.ansi

LitsOnly(out) == SelectSeq(out, IsLit)

AnsiOnly(out) == SelectSeq(out, IsAnsi)

NotNUL(c) == c # NUL

Depth(a) == Len(a.format_stack_)

\* the control code of the initial style: ESC [ 0 ; 39 ; 49 m
InitialCode == Ansi(<<0, 39, 49>>)

\* the automaton before the last n characters of fed were fed
Before(n) == trace[Len(fed) - n + 1]

\* the input ends with the sequence s
FedEndsWith(s) == Len(fed) >= Len(s) /\ SubSeq(fed, Len(fed) - Len(s) + 1, Len(fed)) = s

stripped == IF automaton.strip_ THEN automaton ELSE twin

unstripped == IF automaton.strip_ THEN twin ELSE automaton

(***************************************************************************)
(* C2: strip mode changes only the emission of control codes: the run with *)
(* strip=true goes through the same parse state, buffer, per-tag counters  *)
(* and format stack as the run with strip=false on the same input, and its *)
(* output is the strip=false output with every control code removed.       *)
(***************************************************************************)
C2_StripOnlyEmission ==
    /\ stripped.strip_ /\ ~unstripped.strip_
    /\ stripped.state_ = unstripped.state_
    /\ stripped.buffer_ = unstripped.buffer_
    /\ stripped.format_stack_ = unstripped.format_stack_
    /\ stripped.bracket_format_ = unstripped.bracket_format_
    /\ stripped.parsed_colors_ = unstripped.parsed_colors_
    /\ stripped.parsed_styles_ = unstripped.parsed_styles_
    /\ stripped.out = LitsOnly(unstripped.out)
    /\ \A i \in 1..Len(stripped.out) : ~stripped.out[i].ansi

\* a destroyed pair that pushed, wrote text and popped: the outputs differ
C2_Witness ==
    /\ phase = "destroyed"
    /\ Len(AnsiOnly(unstripped.out)) >= 4
    /\ stripped.out # <<>>
    /\ Depth(Before(0)) = 1

(***************************************************************************)
(* C4: destruction first writes every pending buffered character and then, *)
(* exactly when sanitize is on and strip is off, the control code of the   *)
(* initial style as the last output, whatever the stack depth; with        *)
(* sanitize off nothing follows the flushed buffer.                        *)
(***************************************************************************)
C4_SanitizeGuarantee ==
    phase = "destroyed" =>
        automaton.out = Before(0).out
                            \o Lits(Before(0).buffer_)
                            \o (IF Before(0).sanitize_ /\ ~Before(0).strip_
                                THEN <<InitialCode>> ELSE <<>>)

\* destroyed with a tag open and text pending, sanitize on, not stripped
C4_Witness ==
    /\ phase = "destroyed"
    /\ Depth(Before(0)) > 1
    /\ top(Before(0)) # Format_initial
    /\ Before(0).buffer_ # <<>>
    /\ automaton.sanitize_ /\ ~automaton.strip_
(***************************************************************************)
(* C9: a close delimiter is honoured only when something is open.  When    *)
(* the automaton is in DEFAULT at stack depth 1 and the complete close     *)
(* delimiter follows, no step of it pops, no control code is written while *)
(* it is consumed, and every character of it is literal text, in input     *)
(* order, after the text that was pending before it (written out, or still *)
(* pending in the buffer until the next flush).                            *)
(***************************************************************************)
CloseLen == Len(automaton.syntax_.close_tag)

CloseAtDepth1 ==
    /\ FedEndsWith(automaton.syntax_.close_tag)
    /\ Before(CloseLen).state_ = "DEFAULT"
    /\ Depth(Before(CloseLen)) = 1

C9_CloseOnlyWhenOpen ==
    CloseAtDepth1 =>
        /\ \A k \in 0..(CloseLen - 1) :
               Before(k).format_stack_ = Before(CloseLen).format_stack_
        /\ AnsiOnly(Before(0).out) = AnsiOnly(Before(CloseLen).out)
        /\ LitsOnly(automaton.out) \o Lits(automaton.buffer_)
               = LitsOnly(Before(CloseLen).out) \o Lits(Before(CloseLen).buffer_)
                     \o Lits(automaton.syntax_.close_tag)

\* an unbalanced close as the whole input of an unstripped automaton, destroyed
C9_Witness ==
    /\ CloseAtDepth1
    /\ ~automaton.strip_
    /\ LitsOnly(automaton.out) = Lits(automaton.syntax_.close_tag)
    /\ phase = "destroyed"
(***************************************************************************)
(* Escape sequences: escape on, an input that brings the automaton into    *)
(* one of its parse positions, then the escape character, then any one     *)
(* character, then one more character.                                     *)
(***************************************************************************)
EscapeSecond(syntax) ==
    {ESCAPE_CHAR, "a", "b", "r", "n", "f", "t", "v", TRIM_ESCAPE, "x", " ", NUL}
        \cup DelimChars(syntax)

EscapePlans(syntax) ==
    {prefix \o <<{ESCAPE_CHAR}, EscapeSecond(syntax), {"x", ESCAPE_CHAR}>> :
        prefix \in Prefixes(syntax)}

InitEscape ==
    \E strip \in BOOLEAN, sanitize \in BOOLEAN, syntax \in ALL_STYLES :
        \E p \in EscapePlans(syntax) : Start(strip, TRUE, sanitize, syntax, p)

SpecEscape == InitEscape /\ [][Next]_vars

\* the last character was accepted in PARSE_ESCAPE: it follows an escape character
AfterEscape == Len(fed) >= 1 /\ Before(1).state_ = "PARSE_ESCAPE"

LastFed == fed[Len(fed)]

EscapeLetters == {ESCAPE_CHAR, "a", "b", "r", "n", "f", "t", "v"}

\* the character an escape letter stands for
Escaped(c) ==
    CASE c = ESCAPE_CHAR -> "\\"
      [] c = "a" -> BEL
      [] c = "b" -> BS
      [] c = "r" -> CR
      [] c = "n" -> LF
      [] c = "f" -> FF
      [] c = "t" -> HT
      [] c = "v" -> VT

EscapeOutcome(c) ==
    /\ c \in EscapeLetters =>
           Before(0).out = Before(1).out \o <<Lit(Escaped(c))>>
    /\ c \notin EscapeLetters /\ c # TRIM_ESCAPE =>
           Before(0).out = Before(1).out \o <<Lit(ESCAPE_CHAR), Lit(c)>>
    /\ c # TRIM_ESCAPE =>
           /\ Before(0).buffer_ = <<>>
           /\ Before(0).state_ = "DEFAULT"
           /\ Before(0).format_stack_ = Before(1).format_stack_

(***************************************************************************)
(* C10: with escape enabled, an escape character followed by one of        *)
(* \ a b r n f t v writes exactly the one corresponding character, and     *)
(* followed by any other character except the trim token writes the        *)
(* backslash and that character; in both cases nothing stays pending, the  *)
(* state is DEFAULT again and the format stack is unchanged.               *)
(***************************************************************************)
C10_EscapeMode == AfterEscape => EscapeOutcome(LastFed)

\* the same statement for every second character but the zero byte
C10_EscapeModeNoNUL == AfterEscape /\ LastFed # NUL => EscapeOutcome(LastFed)

\* the failing case: the escape character and a zero byte have written the
\* backslash alone
C10_Witness ==
    /\ AfterEscape
    /\ LastFed = NUL
    /\ Before(0).out = Before(1).out \o <<Lit(ESCAPE_CHAR)>>
(***************************************************************************)
(* Tag bodies as the documentation describes them: colours, attributes and *)
(* the reset token.                                                        *)
(***************************************************************************)
IsColour(c) ==
    c \in Chars(COLOR_CHARS_LOWER) \cup Chars(COLOR_CHARS_UPPER)
              \cup {COLOR_DEFAULT, COLOR_CURRENT}

Attributes ==
    {style_REVERSED, style_BLINK, style_BOLD, style_ITALIC, style_UNDERLINE,
     style_OVERLINE, style_DOUBLE_UNDERLINE, style_STRIKETHROUGH, style_DIM}

IsAttr(c) == c \in Attributes

\* the last character reached handle_opening_bracket: the automaton was inside an
\* open tag and the character did not start an escape sequence
InTagBody ==
    /\ Len(fed) >= 1
    /\ Before(1).state_ = "PARSE_OPENING_BRACKET"
    /\ ~(Before(1).escape_ /\ LastFed = ESCAPE_CHAR)

\* the body read before the last character
BodyBefore ==
    SubSeq(Before(1).buffer_, Len(Before(1).syntax_.open_tag) + 1, Len(Before(1).buffer_))

\* the three causes for which a tag body is abandoned
Abandoned ==
    /\ InTagBody
    /\ LastFed \notin Chars(Before(1).syntax_.open_end)
    /\ \/ IsAttr(LastFed) /\ LastFed \in Chars(BodyBefore)
       \/ IsColour(LastFed) /\ Len(SelectSeq(BodyBefore, IsColour)) >= 2
       \/ ~IsColour(LastFed) /\ ~IsAttr(LastFed) /\ LastFed # RESET_CHAR

Recovered ==
    /\ Before(0).out = Before(1).out \o Lits(Before(1).buffer_) \o <<Lit(LastFed)>>
    /\ Before(0).buffer_ = <<>>
    /\ Before(0).format_stack_ = Before(1).format_stack_
    /\ Before(0).parsed_colors_ = 0
    /\ Before(0).parsed_styles_ = 0
    /\ Before(0).state_ = "DEFAULT"

(***************************************************************************)
(* C5: when a tag body is abandoned (duplicate attribute letter, third     *)
(* colour, or a character that is neither a colour, an attribute, the      *)
(* reset token nor part of the open terminator) the whole buffer, open     *)
(* delimiter and offending character included, is written verbatim in      *)
(* input order, no control code is written, the format stack is unchanged, *)
(* the per-tag counters are cleared and the state is DEFAULT.              *)
(***************************************************************************)
C5_MalformedTagRecovery == Abandoned => Recovered

\* the same statement for every offending character but the zero byte
C5_MalformedTagRecoveryNoNUL == Abandoned /\ LastFed # NUL => Recovered

\* the failing case: a zero byte in a tag body; the buffer is written up to it
C5_Witness ==
    /\ Abandoned
    /\ LastFed = NUL
    /\ Before(0).out = Before(1).out \o Lits(Before(1).buffer_)
    /\ Before(0).state_ = "DEFAULT"
(***************************************************************************)
(* Scenario A and its generalisation: CLASSIC syntax, not stripped, escape *)
(* off; the open delimiter, a body of colours, attributes and reset        *)
(* tokens, the open terminator, text without delimiter characters and the  *)
(* close delimiter.                                                        *)
(***************************************************************************)
BodyChars == {"r", "B", COLOR_DEFAULT, COLOR_CURRENT, style_BOLD, style_UNDERLINE, RESET_CHAR}

TextChars == {"x", "r", NUL}

ScenarioAPlans ==
    {OpenTag(CLASSIC, Free(n, BodyChars)) \o Free(m, TextChars) \o Singletons(CLASSIC.close_tag) :
        n \in 0..MaxBody, m \in 0..MaxText}

InitScenarioA ==
    \E sanitize \in BOOLEAN : \E p \in ScenarioAPlans :
        Start(FALSE, FALSE, sanitize, CLASSIC, p)

SpecScenarioA == InitScenarioA /\ [][Next]_vars

\* a valid tag body: at most two colours, every attribute at most once, at most
\* one reset token, and nothing else
ValidBody(B) ==
    /\ \A i \in 1..Len(B) : IsColour(B[i]) \/ IsAttr(B[i]) \/ B[i] = RESET_CHAR
    /\ Len(SelectSeq(B, IsColour)) <= 2
    /\ \A i, j \in 1..Len(B) : i # j /\ B[i] = B[j] => IsColour(B[i])

\* the colour a colour letter names, and whether it is bright
ColourOf(c) ==
    IF c = COLOR_DEFAULT THEN [color |-> DEFAULT, bright |-> 0]
    ELSE IF c \in Chars(COLOR_CHARS_LOWER)
    THEN [color |-> find(COLOR_CHARS_LOWER, c), bright |-> 0]
    ELSE [color |-> find(COLOR_CHARS_UPPER, c), bright |-> 1]

\* the field of a snapshot an attribute letter toggles
AttrField(c) ==
    CASE c = style_REVERSED -> "reversed"
      [] c = style_BLINK -> "blink"
      [] c = style_BOLD -> "bold"
      [] c = style_ITALIC -> "italic"
      [] c = style_UNDERLINE -> "underline"
      [] c = style_OVERLINE -> "overline"
      [] c = style_DOUBLE_UNDERLINE -> "double_underline"
      [] c = style_STRIKETHROUGH -> "strikethrough"
      [] c = style_DIM -> "dim"

\* the snapshot obtained by applying the valid body B to the snapshot f: start from
\* the initial snapshot if B holds the reset token, toggle B's attributes, take the
\* first colour as foreground and the second as background unless it is "current"
Applied(B, f) ==
    LET base == IF RESET_CHAR \in Chars(B) THEN Format_initial ELSE f
        toggled == [k \in DOMAIN base |->
                       IF \E c \in Chars(B) : IsAttr(c) /\ AttrField(c) = k
                       THEN 1 - base[k] ELSE base[k]]
        colours == SelectSeq(B, IsColour)
        fg == IF Len(colours) >= 1 /\ colours[1] # COLOR_CURRENT
              THEN [toggled EXCEPT !.fg_color = ColourOf(colours[1]).color,
                                   !.fg_bright = ColourOf(colours[1]).bright]
              ELSE toggled
    IN  IF Len(colours) >= 2 /\ colours[2] # COLOR_CURRENT
        THEN [fg EXCEPT !.bg_color = ColourOf(colours[2]).color,
                        !.bg_bright = ColourOf(colours[2]).bright]
        ELSE fg

\* fed is the open delimiter, the valid body B, the open terminator, the text T and
\* the close delimiter, and T holds no delimiter character
IsScenarioA(B, T) ==
    /\ fed = CLASSIC.open_tag \o B \o CLASSIC.open_end \o T \o CLASSIC.close_tag
    /\ ValidBody(B)
    /\ \A i \in 1..Len(T) : T[i] \notin DelimChars(CLASSIC)

ScenarioAOutput(B, T) ==
    Before(0).out = <<InitialCode, Ansi(to_ansi(Applied(B, Format_initial)))>>
                        \o Lits(T) \o <<InitialCode>>

ScenarioAHolds(texts) ==
    \A n \in 0..Len(fed) :
        Len(fed) >= n + 6 =>
            LET B == SubSeq(fed, 2, 1 + n)
                T == SubSeq(fed, 4 + n, Len(fed) - 3)
            IN  IsScenarioA(B, T) /\ Chars(T) \subseteq texts => ScenarioAOutput(B, T)

(***************************************************************************)
(* C1: under CLASSIC syntax, not stripped, escape off, for every valid tag *)
(* body B and every text T without delimiter characters, a fresh automaton *)
(* fed the open delimiter, B, the open terminator, T and the close         *)
(* delimiter has written, in this order and nothing else: the initial      *)
(* snapshot's control code, the control code of B applied to the initial   *)
(* snapshot, the bytes of T, and the control code of the initial snapshot. *)
(***************************************************************************)
C1_ScenarioA == ScenarioAHolds(TextChars)

\* the same statement for texts without the zero byte
C1_ScenarioANoNUL == ScenarioAHolds(TextChars \ {NUL})

\* the failing case: "{r--", a zero byte, "--}" has written the two control codes
\* of the tag and the closing code, and no byte of the text
C1_Witness ==
    /\ IsScenarioA(<<"r">>, <<NUL>>)
    /\ Before(0).out = <<InitialCode, Ansi(<<0, 31, 49>>), InitialCode>>

\* Scenario A itself: "{r--red--}" with the text shortened to "rx"
C1_ScenarioARed ==
    /\ IsScenarioA(<<"r">>, <<"r", "x">>)
    /\ Before(0).out = <<InitialCode, Ansi(<<0, 31, 49>>), Lit("r"), Lit("x"), InitialCode>>
(***************************************************************************)
(* Plain text: an input without any character of the configured delimiters *)
(* and, when escape is enabled, without the escape character.              *)
(***************************************************************************)
PlainText ==
    \A i \in 1..Len(fed) :
        /\ fed[i] \notin DelimChars(automaton.syntax_)
        /\ automaton.escape_ => fed[i] # ESCAPE_CHAR

\* the sanitize code the destructor writes when sanitize is on and strip is off
TrailingSanitize ==
    IF automaton.sanitize_ /\ ~automaton.strip_ THEN <<InitialCode>> ELSE <<>>

\* the initial code the constructor writes when strip is off
LeadingInitial == IF automaton.strip_ THEN <<>> ELSE <<InitialCode>>

(***************************************************************************)
(* C3: for an input without delimiter characters (and, with escape on,     *)
(* without the escape character) the output of the destroyed automaton     *)
(* equals the input exactly, apart from a trailing sanitize code when not  *)
(* stripped.                                                               *)
(***************************************************************************)
C3_TextPreservation ==
    phase = "destroyed" /\ PlainText => automaton.out = Lits(fed) \o TrailingSanitize

\* what the program does write for plain text: the initial code when not stripped,
\* the input without its zero bytes, the sanitize code
C3_TextPreservationObserved ==
    phase = "destroyed" /\ PlainText =>
        automaton.out = LeadingInitial \o Lits(SelectSeq(fed, NotNUL)) \o TrailingSanitize

\* the failing case: a stripped automaton fed x, a zero byte, x has written x x
C3_Witness ==
    /\ phase = "destroyed"
    /\ PlainText
    /\ automaton.strip_
    /\ fed = <<"x", NUL, "x">>
    /\ automaton.out = <<Lit("x"), Lit("x")>>
(***************************************************************************)
(* Toggling: under each preset syntax, after nothing, after an open tag    *)
(* with the same attribute or after an open colour tag, either the         *)
(* single-attribute tag twice or one tag with the attribute letter twice.  *)
(***************************************************************************)
TogglePrefixes(syntax, a) == {<<>>, OpenTag(syntax, <<{a}>>), OpenTag(syntax, <<{"r"}>>)}

TogglePlans(syntax) ==
    UNION {{prefix \o shape :
               prefix \in TogglePrefixes(syntax, a),
               shape \in {OpenTag(syntax, <<{a}>>) \o OpenTag(syntax, <<{a}>>),
                          OpenTag(syntax, <<{a}, {a}>>)}} : a \in Attributes}

InitToggle ==
    \E strip \in BOOLEAN, sanitize \in BOOLEAN, syntax \in ALL_STYLES :
        \E p \in TogglePlans(syntax) : Start(strip, FALSE, sanitize, syntax, p)

SpecToggle == InitToggle /\ [][Next]_vars

\* the text of an open tag with the body B
Tag(B) == automaton.syntax_.open_tag \o B \o automaton.syntax_.open_end

StyleFields ==
    {"fg_color", "fg_bright", "bg_color", "bg_bright", "reversed", "blink", "bold",
     "italic", "underline", "overline", "double_underline", "strikethrough", "dim"}

\* equal in colours and attributes
SameStyle(f, g) == \A k \in StyleFields : f[k] = g[k]

\* the input ends with the single-attribute tag of a twice, read from DEFAULT, and
\* the tag's text is not the close delimiter (as "[/]" is under BRACKET)
OpenedTwice(a) ==
    /\ Tag(<<a>>) # automaton.syntax_.close_tag
    /\ FedEndsWith(Tag(<<a>>) \o Tag(<<a>>))
    /\ Before(2 * Len(Tag(<<a>>))).state_ = "DEFAULT"

\* the input ends with an open delimiter and the letter of a twice, read from DEFAULT
LetterTwice(a) ==
    /\ FedEndsWith(automaton.syntax_.open_tag \o <<a, a>>)
    /\ Before(Len(automaton.syntax_.open_tag) + 2).state_ = "DEFAULT"

PushesNothing(n) == \A k \in 0..n : Before(k).format_stack_ = Before(n).format_stack_

(***************************************************************************)
(* C6 as stated: for each of the nine attributes, opening the              *)
(* single-attribute tag and then, while it is open, the same tag again     *)
(* yields a top snapshot with that attribute cleared, equal in colours and *)
(* attributes to the snapshot before the first open; the same letter twice *)
(* inside one tag body pushes nothing.                                     *)
(***************************************************************************)
C6_ToggleLawCleared ==
    \A a \in Attributes :
        /\ OpenedTwice(a) =>
               LET L == Len(Tag(<<a>>))
               IN  /\ Depth(Before(0)) = Depth(Before(2 * L)) + 2
                   /\ top(Before(0))[AttrField(a)] = 0
                   /\ SameStyle(top(Before(0)), top(Before(2 * L)))
        /\ LetterTwice(a) => PushesNothing(Len(automaton.syntax_.open_tag) + 2)

(***************************************************************************)
(* C6 amended: for each of the nine attributes whose single-attribute tag  *)
(* is not the close delimiter, opening the tag pushes a snapshot with the  *)
(* attribute toggled, and opening it again while it is open pushes a       *)
(* snapshot equal in colours and attributes to the one before the first    *)
(* open (the attribute is clear again if it was clear, set again if it was *)
(* set); the same letter twice inside one tag body pushes nothing.         *)
(***************************************************************************)
C6_ToggleLaw ==
    \A a \in Attributes :
        /\ OpenedTwice(a) =>
               LET L == Len(Tag(<<a>>))
               IN  /\ Depth(Before(L)) = Depth(Before(2 * L)) + 1
                   /\ Depth(Before(0)) = Depth(Before(2 * L)) + 2
                   /\ top(Before(L))[AttrField(a)] = 1 - top(Before(2 * L))[AttrField(a)]
                   /\ SameStyle(top(Before(0)), top(Before(2 * L)))
        /\ LetterTwice(a) => PushesNothing(Len(automaton.syntax_.open_tag) + 2)

\* the strikethrough tag opened twice over an open colour tag: set, then clear again
C6_Witness ==
    /\ OpenedTwice(style_STRIKETHROUGH)
    /\ top(Before(2 * Len(Tag(<<style_STRIKETHROUGH>>)))).fg_color = 1
    /\ top(Before(Len(Tag(<<style_STRIKETHROUGH>>)))).strikethrough = 1
    /\ top(Before(0)).strikethrough = 0
    /\ Depth(Before(0)) = 4
(***************************************************************************)
(* Round trips: under each preset syntax, at depth 1 or inside an open     *)
(* colour tag, an open tag with a body of up to MaxBody characters and     *)
(* then the close delimiter.                                               *)
(***************************************************************************)
RoundTripBodyChars == {"r", style_BOLD, style_ITALIC, RESET_CHAR}

RoundTripPlans(syntax) ==
    {prefix \o OpenTag(syntax, Free(n, RoundTripBodyChars)) \o Singletons(syntax.close_tag) :
        prefix \in {<<>>, OpenTag(syntax, <<{"r"}>>)}, n \in 0..MaxBody}

InitRoundTrip ==
    \E strip \in BOOLEAN, sanitize \in BOOLEAN, syntax \in ALL_STYLES :
        \E p \in RoundTripPlans(syntax) : Start(strip, FALSE, sanitize, syntax, p)

SpecRoundTrip == InitRoundTrip /\ [][Next]_vars

RoundTripBodies == UNION {[1..n -> RoundTripBodyChars] : n \in 0..MaxBody}

\* the input ends with the well-formed open tag of body B and the close delimiter,
\* read from DEFAULT with an empty buffer
TagThenClose(B) ==
    /\ ValidBody(B)
    /\ Tag(B) # automaton.syntax_.close_tag
    /\ FedEndsWith(Tag(B) \o automaton.syntax_.close_tag)
    /\ Before(Len(Tag(B)) + CloseLen).state_ = "DEFAULT"
    /\ Before(Len(Tag(B)) + CloseLen).buffer_ = <<>>

\* the stack is as before the tag, and the code written at the close (none when
\* stripped) renders the top the stack had before the tag
RoundTrip(B) ==
    LET pre == Before(Len(Tag(B)) + CloseLen)
    IN  /\ Before(0).format_stack_ = pre.format_stack_
        /\ AnsiOnly(Before(0).out)
               = AnsiOnly(Before(CloseLen).out)
                     \o (IF automaton.strip_ THEN <<>> ELSE <<Ansi(to_ansi(top(pre)))>>)

\* the tag's text starts like the close delimiter, as "[/*]" does under BRACKET
StartsLikeClose(B) == SubSeq(Tag(B), 1, 2) = SubSeq(automaton.syntax_.close_tag, 1, 2)

(***************************************************************************)
(* C7: from a state in DEFAULT with an empty buffer, a well-formed open    *)
(* tag immediately followed by the close delimiter leaves the format stack *)
(* identical to what it was before the open tag, and the control code      *)
(* written at the close is the rendering of the top snapshot before the    *)
(* push.                                                                   *)
(***************************************************************************)
C7_BalancedRoundTrip == \A B \in RoundTripBodies : TagThenClose(B) => RoundTrip(B)

\* the same statement for the tags that do not start like the close delimiter
C7_BalancedRoundTripUnambiguous ==
    \A B \in RoundTripBodies : TagThenClose(B) /\ ~StartsLikeClose(B) => RoundTrip(B)

\* the failing case: "[r]", then "[/*]" and "[/]": the close has popped the colour tag
C7_Witness ==
    /\ automaton.syntax_ = BRACKET
    /\ fed = <<"[", "r", "]">> \o <<"[", style_ITALIC, style_BOLD, "]">> \o <<"[", "/", "]">>
    /\ TagThenClose(<<style_ITALIC, style_BOLD>>)
    /\ Depth(Before(7)) = 2
    /\ Depth(Before(0)) = 1
(***************************************************************************)
(* Over-closing: under each preset syntax, no tag or one colour tag, then  *)
(* up to MaxClose close delimiters.                                        *)
(***************************************************************************)
RECURSIVE Repeat(_, _)
Repeat(s, n) == IF n = 0 THEN <<>> ELSE s \o Repeat(s, n - 1)

OverClosePlans(syntax) ==
    {prefix \o Repeat(Singletons(syntax.close_tag), k) :
        prefix \in {<<>>, OpenTag(syntax, <<{"r"}>>)}, k \in 1..MaxClose}

InitOverClose ==
    \E strip \in BOOLEAN, sanitize \in BOOLEAN, syntax \in ALL_STYLES :
        \E p \in OverClosePlans(syntax) : Start(strip, FALSE, sanitize, syntax, p)

SpecOverClose == InitOverClose /\ [][Next]_vars

\* the input ends with a close delimiter that arrived with the stack at its single
\* bottom entry and no open tag being parsed
FurtherClose ==
    /\ FedEndsWith(automaton.syntax_.close_tag)
    /\ Depth(Before(CloseLen)) = 1
    /\ Before(CloseLen).state_ \in {"DEFAULT", "PARSE_CLOSING_TAG"}

StaysAtBottom == \A k \in 0..CloseLen : Before(k).format_stack_ = Before(CloseLen).format_stack_

(***************************************************************************)
(* C8 as stated: once the stack is at its single bottom entry, each        *)
(* further close delimiter leaves the stack at that entry and causes the   *)
(* bottom entry's control code to be written again.                        *)
(***************************************************************************)
C8_OverCloseReaffirms ==
    FurtherClose /\ ~automaton.strip_ =>
        /\ StaysAtBottom
        /\ AnsiOnly(Before(0).out)
               = AnsiOnly(Before(CloseLen).out) \o <<Ansi(to_ansi(Before(0).format_stack_[1]))>>

(***************************************************************************)
(* C8 amended: once the stack is at its single bottom entry, each further  *)
(* close delimiter leaves the stack at that entry, writes no control code, *)
(* and its characters are literal text after the text before it (written,  *)
(* or pending in the buffer until the next flush).                         *)
(***************************************************************************)
C8_IdempotentOverClose ==
    FurtherClose =>
        /\ StaysAtBottom
        /\ AnsiOnly(Before(0).out) = AnsiOnly(Before(CloseLen).out)
        /\ LitsOnly(Before(0).out) \o Lits(Before(0).buffer_)
               = LitsOnly(Before(CloseLen).out) \o Lits(Before(CloseLen).buffer_)
                     \o Lits(automaton.syntax_.close_tag)

\* a colour tag closed and then two more close delimiters, the automaton destroyed:
\* three control codes from the tag, the two delimiters as text, the sanitize code
C8_Witness ==
    /\ phase = "destroyed"
    /\ FurtherClose
    /\ Len(fed) >= 3 * CloseLen
    /\ Depth(Before(2 * CloseLen)) = 1
    /\ Depth(Before(3 * CloseLen)) = 2
    /\ ~automaton.strip_ /\ automaton.sanitize_
    /\ automaton.out = <<InitialCode, Ansi(<<0, 31, 49>>), InitialCode>>
                           \o Lits(automaton.syntax_.close_tag \o automaton.syntax_.close_tag)
                           \o <<InitialCode>>
(***************************************************************************)
(* Trimming: escape on, an input that brings the automaton into one of its *)
(* parse positions, the escape character and the trim token, up to         *)
(* MaxSpace whitespace characters, one more character and an x.            *)
(***************************************************************************)
Whitespace == {" ", HT, LF, VT, FF, CR}

AfterTrim(syntax) == {"x", "n", NUL, ESCAPE_CHAR, TRIM_ESCAPE} \cup DelimChars(syntax)

TrimPlans(syntax) ==
    {prefix \o <<{ESCAPE_CHAR}, {TRIM_ESCAPE}>> \o Free(k, Whitespace)
            \o <<AfterTrim(syntax), {"x"}>> :
        prefix \in {<<>>, <<{"x"}>>, OpenTag(syntax, <<{"r"}>>),
                    Singletons(syntax.open_tag) \o <<{"r"}>>},
        k \in 0..MaxSpace}

InitTrim ==
    \E strip \in BOOLEAN, sanitize \in BOOLEAN, syntax \in ALL_STYLES :
        \E p \in TrimPlans(syntax) : Start(strip, TRUE, sanitize, syntax, p)

SpecTrim == InitTrim /\ [][Next]_vars

\* the automaton as it would be in DEFAULT state
InDefault(a) == [a EXCEPT !.state_ = "DEFAULT"]

(***************************************************************************)
(* C11: with escape enabled, the escape character followed by the trim     *)
(* token writes nothing (neither the backslash nor '#'); every whitespace  *)
(* character that follows is consumed without output and without any       *)
(* other change; the first character that is not whitespace is processed   *)
(* exactly as it would be in DEFAULT state.                                *)
(***************************************************************************)
C11_TrimEscape ==
    /\ AfterEscape /\ LastFed = TRIM_ESCAPE =>
           /\ Before(0).out = Before(1).out
           /\ Before(0).buffer_ = <<>>
           /\ Before(0).state_ = "SKIP_WHITESPACE"
           /\ Before(0).format_stack_ = Before(1).format_stack_
    /\ Len(fed) >= 1 /\ Before(1).state_ = "SKIP_WHITESPACE" =>
           IF LastFed \in Whitespace
           THEN Before(0) = Before(1)
           ELSE Before(0) = accept(InDefault(Before(1)), LastFed)

\* "Hello\#     World" shortened: x, the trim escape, two spaces and x x have
\* written x x x, the automaton destroyed
C11_Witness ==
    /\ phase = "destroyed"
    /\ fed = <<"x", ESCAPE_CHAR, TRIM_ESCAPE, " ", " ", "x", "x">>
    /\ LitsOnly(automaton.out) = Lits(<<"x", "x", "x">>)
    /\ Before(2).state_ = "SKIP_WHITESPACE"
    /\ Before(1).state_ = "DEFAULT"
(***************************************************************************)
(* Escape off: under each preset syntax, at depth 1, inside an open tag    *)
(* or inside a tag body, up to MaxPlain characters among the backslash,    *)
(* the trim token, a space, the open delimiter's first character, the      *)
(* close delimiter's second character and a colour letter.                 *)
(***************************************************************************)
NoEscapeChars(syntax) ==
    {ESCAPE_CHAR, TRIM_ESCAPE, " ", "r", syntax.open_tag[1], syntax.close_tag[2]}

NoEscapePlans(syntax) ==
    {prefix \o Free(MaxPlain, NoEscapeChars(syntax)) :
        prefix \in {<<>>, OpenTag(syntax, <<{"r"}>>)}}

InitNoEscape ==
    \E strip \in BOOLEAN, sanitize \in BOOLEAN, syntax \in ALL_STYLES :
        \E p \in NoEscapePlans(syntax) : Start(strip, FALSE, sanitize, syntax, p)

SpecNoEscape == InitNoEscape /\ [][Next]_vars

\* the output out with its last item replaced by the literal character c
WithLast(out, c) == [i \in 1..Len(out) |-> IF i = Len(out) THEN Lit(c) ELSE out[i]]

\* the automaton after the ordinary character x, with the backslash written where
\* the x was written
LikeOrdinary(a) ==
    LET ax == accept(a, "x") IN [ax EXCEPT !.out = WithLast(ax.out, ESCAPE_CHAR)]

(***************************************************************************)
(* C12: with escape disabled the states PARSE_ESCAPE and SKIP_WHITESPACE   *)
(* are never reached, and a backslash is handled like any other character  *)
(* that is in no delimiter: written literally after the pending buffer in  *)
(* DEFAULT, abandoning the tag inside a tag body.                          *)
(***************************************************************************)
C12_EscapeDisabled ==
    ~automaton.escape_ =>
        /\ automaton.state_ \notin {"PARSE_ESCAPE", "SKIP_WHITESPACE"}
        /\ \A i \in 1..Len(trace) : trace[i].state_ \notin {"PARSE_ESCAPE", "SKIP_WHITESPACE"}
        /\ Len(fed) >= 1 /\ LastFed = ESCAPE_CHAR =>
               /\ Before(0) = LikeOrdinary(Before(1))
               /\ Before(1).state_ = "DEFAULT" =>
                      /\ Before(0).out = Before(1).out \o Lits(Before(1).buffer_)
                                             \o <<Lit(ESCAPE_CHAR)>>
                      /\ Before(0).state_ = "DEFAULT"
                      /\ Before(0).format_stack_ = Before(1).format_stack_
               /\ Before(1).state_ = "PARSE_OPENING_BRACKET" => Recovered

\* inside an open tag, a backslash, the trim token and a space: the three are
\* written as text, nothing is skipped
C12_Witness ==
    /\ Len(fed) >= 3
    /\ SubSeq(fed, Len(fed) - 2, Len(fed)) = <<ESCAPE_CHAR, TRIM_ESCAPE, " ">>
    /\ Before(3).state_ = "DEFAULT"
    /\ Depth(Before(3)) = 2
    /\ Before(0).out = Before(3).out \o Lits(<<ESCAPE_CHAR, TRIM_ESCAPE, " ">>)
(***************************************************************************)
(* Any syntax: the presets and custom syntaxes whose delimiters overlap    *)
(* (open = close, a multi-character open delimiter, a close delimiter that *)
(* starts with the open delimiter and holds the terminator, a terminator   *)
(* that is a colour letter), and every input of MaxAny characters over the *)
(* delimiter characters, a colour, an attribute and the reset token.       *)
(***************************************************************************)
CustomArgs ==
    {<< <<"@", "@">>, <<":">>, <<"@", "@">> >>,
     << <<"|">>, <<":">>, <<"|">> >>,
     << <<"{">>, <<"}">>, <<"{", "}">> >>,
     << <<"(">>, <<"r">>, <<")">> >>}

CustomSyntaxes == {from_args(args[1], args[2], args[3]) : args \in CustomArgs}

AnyChars(syntax) == DelimChars(syntax) \cup {"r", style_BOLD, RESET_CHAR}

InitAnySyntax ==
    \E strip \in BOOLEAN, sanitize \in BOOLEAN, syntax \in ALL_STYLES \cup CustomSyntaxes :
        Start(strip, FALSE, sanitize, syntax, Free(MaxAny, AnyChars(syntax)))

SpecAnySyntax == InitAnySyntax /\ [][Next]_vars

\* every entry of the stack passes the assertion of to_ansi, and the stack has a top
StackSound(a) ==
    /\ Len(a.format_stack_) >= 1
    /\ \A i \in 1..Len(a.format_stack_) :
           a.format_stack_[i].valid = 1 /\ a.format_stack_[i].reset = 1

\* no rendering has failed its assertion
NoAssertionFailed(a) == \A i \in 1..Len(a.out) : a.out[i].codes # AssertionFailed

(***************************************************************************)
(* C13: for every configuration with non-empty delimiters and every input, *)
(* before and after every accept and after destruction the format stack is *)
(* not empty, every Format on it has valid = 1 and reset = 1, and no       *)
(* rendering has failed the assertion valid && reset of to_ansi.           *)
(***************************************************************************)
C13_NoFatalError ==
    /\ Len(automaton.syntax_.open_tag) >= 1
    /\ StackSound(automaton) /\ StackSound(twin)
    /\ \A i \in 1..Len(trace) : StackSound(trace[i])
    /\ NoAssertionFailed(automaton) /\ NoAssertionFailed(twin)
    /\ to_ansi(top(automaton)) # AssertionFailed
    /\ to_ansi(Format_initial) # AssertionFailed

\* under open = close = "|": a reset tag opened and closed by the same character,
\* the automaton destroyed
C13_Witness ==
    /\ phase = "destroyed"
    /\ automaton.syntax_ = from_args(<<"|">>, <<":">>, <<"|">>)
    /\ fed = <<"|", RESET_CHAR, ":", "|">>
    /\ Depth(Before(1)) = 2
    /\ Depth(Before(0)) = 1
    /\ Len(AnsiOnly(unstripped.out)) >= 3
(***************************************************************************)
(* Tag bodies: CLASSIC syntax, not stripped; one open tag and the close    *)
(* delimiter, at depth 1 or inside an open tag "{!K--".  The body is       *)
(* (a) any of the 512 sets of attributes followed by no or two colours,    *)
(* (b) any one or two colour tokens before, around or after a fixed set of *)
(* attributes, (c) three colour tokens.                                    *)
(***************************************************************************)
AttrOrder ==
    <<style_REVERSED, style_BLINK, style_BOLD, style_ITALIC, style_UNDERLINE,
      style_OVERLINE, style_DOUBLE_UNDERLINE, style_STRIKETHROUGH, style_DIM>>

\* the attributes of the set S as a body
AttrBody(S) == LET in(c) == c \in S IN SelectSeq(AttrOrder, in)

ColourTokens ==
    Chars(COLOR_CHARS_LOWER) \cup Chars(COLOR_CHARS_UPPER) \cup {COLOR_DEFAULT, COLOR_CURRENT}

FewColours == {"r", "B", COLOR_DEFAULT, COLOR_CURRENT}

Bodies ==
    {AttrBody(S) \o colours :
        S \in SUBSET Attributes, colours \in {<<>>, <<"B", "g">>}}
    \cup {<<c1>> : c1 \in ColourTokens}
    \cup {pre \o <<c1>> \o mid \o <<c2>> \o post :
              c1 \in ColourTokens, c2 \in ColourTokens,
              pre \in {<<>>}, mid \in {<<>>, <<style_BOLD, style_UNDERLINE>>}, post \in {<<>>}}
    \cup {pre \o <<c1>> \o mid \o <<c2>> \o post :
              c1 \in FewColours, c2 \in FewColours,
              pre \in {<<>>, <<style_DIM>>}, mid \in {<<>>, <<RESET_CHAR>>},
              post \in {<<>>, <<style_BLINK>>}}
    \cup {<<c1, c2>> \o mid \o <<c3>> :
              c1 \in FewColours, c2 \in FewColours, c3 \in FewColours,
              mid \in {<<>>, <<style_BOLD>>}}

BodyPlans ==
    {prefix \o OpenTag(CLASSIC, Singletons(B)) \o Singletons(CLASSIC.close_tag) :
        prefix \in {<<>>, OpenTag(CLASSIC, <<{style_BLINK}, {"K"}>>)}, B \in Bodies}

InitBodies == \E p \in BodyPlans : Start(FALSE, FALSE, TRUE, CLASSIC, p)

SpecBodies == InitBodies /\ [][Next]_vars

\* the attribute fields in the order in which a control code lists them, and
\* their codes
RenderOrder ==
    <<"bold", "dim", "italic", "underline", "blink", "reversed", "strikethrough",
      "double_underline", "overline">>

AttrCode(field) ==
    CASE field = "bold" -> ansi_BOLD
      [] field = "dim" -> ansi_DIM
      [] field = "italic" -> ansi_ITALIC
      [] field = "underline" -> ansi_UNDERLINE
      [] field = "blink" -> ansi_BLINK
      [] field = "reversed" -> ansi_REVERSED
      [] field = "strikethrough" -> ansi_STRIKETHROUGH
      [] field = "double_underline" -> ansi_DOUBLE_UNDERLINE
      [] field = "overline" -> ansi_OVERLINE

ForegroundCodes == (30..37) \cup {39} \cup (90..97)

BackgroundCodes == (40..47) \cup {49} \cup (100..107)

\* codes is 0, then the codes of exactly the attributes that are set in the
\* snapshot f, in the fixed order, then one foreground and one background code
RendersSnapshot(codes, f) ==
    LET set(field) == f[field] = 1
        attrs == SelectSeq(RenderOrder, set)
        n == Len(attrs)
    IN  /\ Len(codes) = n + 3
        /\ codes[1] = 0
        /\ \A i \in 1..n : codes[i + 1] = AttrCode(attrs[i])
        /\ codes[n + 2] \in ForegroundCodes
        /\ codes[n + 3] \in BackgroundCodes

\* the items the last accept has written
LastWritten == SubSeq(Before(0).out, Len(Before(1).out) + 1, Len(Before(0).out))

(***************************************************************************)
(* C14: every control code the automaton writes is an absolute rendering   *)
(* of one snapshot: the reset code 0, the codes of exactly the attributes  *)
(* set in the snapshot in the order bold, dim, italic, underline, blink,   *)
(* reversed, strikethrough, double underline, overline, then exactly one   *)
(* foreground and one background code.  The code written by an accept is   *)
(* the rendering of the top of the stack after it, whatever was written    *)
(* before; the constructor and the destructor write the rendering of the   *)
(* initial snapshot.                                                       *)
(***************************************************************************)
C14_AbsoluteRendering ==
    /\ \A i \in 1..Len(automaton.out) :
           automaton.out[i].ansi =>
               \E a \in {trace[k] : k \in 1..Len(trace)} :
                   \E f \in {a.format_stack_[j] : j \in 1..Len(a.format_stack_)} :
                       RendersSnapshot(automaton.out[i].codes, f)
    /\ Len(fed) >= 1 =>
           \A i \in 1..Len(LastWritten) :
               LastWritten[i].ansi =>
                   /\ RendersSnapshot(LastWritten[i].codes, top(Before(0)))
                   /\ LastWritten[i].codes = to_ansi(top(Before(0)))
    /\ RendersSnapshot(trace[1].out[1].codes, Format_initial)
    /\ phase = "destroyed" /\ automaton.sanitize_ =>
           RendersSnapshot(automaton.out[Len(automaton.out)].codes, Format_initial)

\* all nine attributes with bright blue on green: ESC [ 0;1;2;3;4;6;7;9;21;53;94;42 m
C14_Witness ==
    /\ Len(fed) >= 1
    /\ LastWritten = <<Ansi(<<0, 1, 2, 3, 4, 6, 7, 9, 21, 53, 94, 42>>)>>
    /\ Depth(Before(0)) = 2

\* the numeric code of a colour: base + hue for the eight hues 0..7, 60 more when
\* bright, and base + 9 for DEFAULT
ColourCode(base, color, bright) ==
    IF color = DEFAULT THEN base + 9
    ELSE IF bright = 1 THEN base + 60 + color ELSE base + color

Hues == 0..7

\* the code a colour token stands for at depth 1, where "current" is the default
TokenCode(base, c) ==
    IF c = COLOR_CURRENT THEN base + 9
    ELSE ColourCode(base, ColourOf(c).color, ColourOf(c).bright)

(***************************************************************************)
(* C15: in every control code written, the foreground code is 30 + hue for *)
(* a normal hue 0..7, 90 + hue for a bright one and 39 for DEFAULT, and    *)
(* the background code is 40 + hue, 100 + hue and 49; the snapshot         *)
(* rendered holds a hue or DEFAULT, the code of DEFAULT is never the code  *)
(* of a hue, and a tag of two colour tokens opened at depth 1 writes the   *)
(* codes of these two tokens.                                              *)
(***************************************************************************)
C15_ColourCodes ==
    /\ Len(fed) >= 1 =>
           \A i \in 1..Len(LastWritten) :
               LastWritten[i].ansi =>
                   LET f == top(Before(0))
                       codes == LastWritten[i].codes
                       fg == codes[Len(codes) - 1]
                       bg == codes[Len(codes)]
                   IN  /\ f.fg_color \in Hues \cup {DEFAULT}
                       /\ f.bg_color \in Hues \cup {DEFAULT}
                       /\ fg = ColourCode(30, f.fg_color, f.fg_bright)
                       /\ bg = ColourCode(40, f.bg_color, f.bg_bright)
                       /\ fg = 39 <=> f.fg_color = DEFAULT
                       /\ bg = 49 <=> f.bg_color = DEFAULT
                       /\ fg \in (30..37) \cup {39} \cup (90..97)
                       /\ bg \in (40..47) \cup {49} \cup (100..107)
    /\ \A c1 \in ColourTokens, c2 \in ColourTokens :
           fed = CLASSIC.open_tag \o <<c1, c2>> \o CLASSIC.open_end =>
               LastWritten = <<Ansi(<<0, TokenCode(30, c1), TokenCode(40, c2)>>)>>

\* "{Wk--" writes ESC [ 0;97;40 m
C15_Witness ==
    /\ fed = <<"{", "W", "k", "-", "-">>
    /\ LastWritten = <<Ansi(<<0, 97, 40>>)>>

\* the colour and brightness a colour token writes into the relative spec
TokenColour(c) ==
    IF c = COLOR_CURRENT THEN [color |-> CURRENT, bright |-> 0] ELSE ColourOf(c)

\* the last character is a colour token read inside a tag body that holds only
\* colour, attribute and reset tokens, n colour tokens among them
ColourTokenAfter(n) ==
    /\ InTagBody
    /\ IsColour(LastFed)
    /\ \A i \in 1..Len(BodyBefore) :
           IsColour(BodyBefore[i]) \/ IsAttr(BodyBefore[i]) \/ BodyBefore[i] = RESET_CHAR
    /\ Len(SelectSeq(BodyBefore, IsColour)) = n

\* the relative spec after the last character is the one before it except for the
\* fields color and bright, which hold the colour of the last character
SetsOnly(color, bright) ==
    /\ Before(0).bracket_format_ =
           [Before(1).bracket_format_ EXCEPT ![color] = TokenColour(LastFed).color,
                                             ![bright] = TokenColour(LastFed).bright]
    /\ Before(0).state_ = "PARSE_OPENING_BRACKET"
    /\ Before(0).format_stack_ = Before(1).format_stack_
    /\ Before(0).out = Before(1).out

\* the last character completed the open terminator of a tag with the body B, B
\* valid and without a character of the terminator
OpensTag(B) ==
    /\ InTagBody
    /\ Before(1).buffer_ \o <<LastFed>> = Tag(B)
    /\ ValidBody(B)

\* the buffer with the last character, less the open delimiter and as many
\* characters as the open terminator has
ReadBody ==
    SubSeq(Before(1).buffer_, Len(Before(1).syntax_.open_tag) + 1,
           Len(Before(1).buffer_) + 1 - Len(Before(1).syntax_.open_end))

(***************************************************************************)
(* C16: inside a tag body the first colour token (a hue letter, lower or   *)
(* upper case, 'd' or ';') sets the foreground of the relative spec and    *)
(* the second its background, wherever they stand among the attribute and  *)
(* reset tokens; a third colour token abandons the tag: nothing is pushed  *)
(* and the tag's text is written.  The tag that opens has the first colour *)
(* as foreground and the second as background.                             *)
(***************************************************************************)
C16_ColourPositions ==
    /\ ColourTokenAfter(0) => SetsOnly("fg_color", "fg_bright")
    /\ ColourTokenAfter(1) => SetsOnly("bg_color", "bg_bright")
    /\ \A n \in 2..Len(fed) :
           ColourTokenAfter(n) => Recovered /\ PushesNothing(Len(Before(1).buffer_) + 1)
    /\ OpensTag(ReadBody) =>
           /\ Depth(Before(0)) = Depth(Before(1)) + 1
           /\ SameStyle(top(Before(0)), Applied(ReadBody, top(Before(1))))

\* "{rB*d": red foreground, bright blue background, then the third colour
C16_Witness ==
    /\ fed = <<"{", "r", "B", style_BOLD, COLOR_DEFAULT>>
    /\ Before(1).bracket_format_.fg_color = 1
    /\ Before(1).bracket_format_.bg_color = 4
    /\ Before(1).bracket_format_.bg_bright = 1
    /\ Before(0).state_ = "DEFAULT"
    /\ Before(0).out = <<InitialCode>> \o Lits(fed)

(***************************************************************************)
(* Tag grammar: CLASSIC and a custom syntax with a two-character open      *)
(* terminator; an open delimiter, up to MaxGrammar characters drawn from   *)
(* two colours, an attribute, the reset token, an ordinary character and   *)
(* the first character of the open terminator, then the open terminator,   *)
(* at depth 1 and inside an open tag.                                      *)
(***************************************************************************)
GrammarSyntaxes == {CLASSIC, from_args(<<"(">>, <<":", ":">>, <<":", ")">>)}

GrammarChars(syntax) == {"r", "b", style_BOLD, RESET_CHAR, "x", syntax.open_end[1]}

GrammarPlans(syntax) ==
    {prefix \o OpenTag(syntax, Free(k, GrammarChars(syntax))) :
        prefix \in {<<>>, OpenTag(syntax, <<{style_DIM}>>)}, k \in 0..MaxGrammar}

InitGrammar ==
    \E strip \in BOOLEAN, syntax \in GrammarSyntaxes :
        \E p \in GrammarPlans(syntax) : Start(strip, FALSE, TRUE, syntax, p)

SpecGrammar == InitGrammar /\ [][Next]_vars

IsToken(c) == IsColour(c) \/ IsAttr(c) \/ c = RESET_CHAR

\* the last character made the automaton push a snapshot
Pushed == Len(fed) >= 1 /\ Depth(Before(0)) = Depth(Before(1)) + 1

(***************************************************************************)
(* C17: a push happens only if every character between the open delimiter  *)
(* and the open terminator is a colour token, an attribute token or the    *)
(* reset token; a body with anything else, a single character of a broken  *)
(* open terminator included ("{r-b--"), produces no push.                  *)
(***************************************************************************)
C17_TagGrammar ==
    Pushed =>
        /\ Before(1).buffer_ \o <<LastFed>> = Tag(ReadBody)
        /\ \A i \in 1..Len(ReadBody) : IsToken(ReadBody[i])

\* C17 apart from the broken open terminator: a push happens only if every
\* character between the open delimiter and the open terminator is a token or a
\* character of the open terminator, and the snapshot pushed is the one the tokens
\* alone describe
C17_TagGrammarUpToTerminator ==
    Pushed =>
        /\ Before(1).buffer_ \o <<LastFed>> = Tag(ReadBody)
        /\ \A i \in 1..Len(ReadBody) :
               IsToken(ReadBody[i]) \/ ReadBody[i] \in Chars(automaton.syntax_.open_end)
        /\ ValidBody(SelectSeq(ReadBody, IsToken)) =>
               SameStyle(top(Before(0)), Applied(SelectSeq(ReadBody, IsToken), top(Before(1))))

\* "{r-b--" opens a tag, red on blue
C17_Witness ==
    /\ fed = <<"{", "r", "-", "b", "-", "-">>
    /\ Pushed
    /\ top(Before(0)).fg_color = 1
    /\ top(Before(0)).bg_color = 4

\* the last character is the token c, read inside a tag body of tokens that already
\* holds c
SecondOccurrence(c) ==
    /\ InTagBody
    /\ LastFed = c
    /\ \A i \in 1..Len(BodyBefore) : IsToken(BodyBefore[i])
    /\ c \in Chars(BodyBefore)

AbandonsTag == Recovered /\ PushesNothing(Len(Before(1).buffer_) + 1)

(***************************************************************************)
(* C18: each of the nine attribute tokens and the reset token '0' may      *)
(* occur at most once in a tag body: the second occurrence of the same     *)
(* token, the reset token included, abandons the tag and pushes nothing.   *)
(***************************************************************************)
C18_TokenOnce ==
    \A c \in Attributes \cup {RESET_CHAR} : SecondOccurrence(c) => AbandonsTag

\* C18 for the nine attribute tokens; a repeated reset token is read like the
\* first one: the tag goes on and the relative spec is unchanged
C18_AttributeOnce ==
    /\ \A c \in Attributes : SecondOccurrence(c) => AbandonsTag
    /\ SecondOccurrence(RESET_CHAR) =>
           /\ Before(0).state_ = "PARSE_OPENING_BRACKET"
           /\ Before(0).bracket_format_ = Before(1).bracket_format_
           /\ Before(0).format_stack_ = Before(1).format_stack_
           /\ Before(0).out = Before(1).out

\* "{*0*": the second '*' abandons the tag
C18_Witness ==
    /\ fed = <<"{", style_BOLD, RESET_CHAR, style_BOLD>>
    /\ SecondOccurrence(style_BOLD)
    /\ Before(0).state_ = "DEFAULT"
    /\ unstripped.out = <<InitialCode>> \o Lits(fed)

\* "{00--" opens a tag
C18_ResetTwice ==
    /\ fed = <<"{", RESET_CHAR, RESET_CHAR, "-", "-">>
    /\ Pushed

(***************************************************************************)
(* formatter.cpp: main.  process.argv is the command line without the      *)
(* program name, so that process.argv[i] is argv[i] and argc is            *)
(* Len(process.argv) + 1; an argument is a sequence of characters.         *)
(* process.pc is main's position: "getopt" (the option loop), "args" (the  *)
(* head of the loop over the positional arguments), "arg" (inside one      *)
(* argument), "stdin" (before the automaton of the input stream),          *)
(* "reading" (inside the input stream) and "exit".  While an automaton     *)
(* lives, its field out is what has been written to stdout so far.         *)
(***************************************************************************)
EXIT_SUCCESS == 0

EXIT_FAILURE == 1

\* the values of the option characters
ord(c) ==
    CASE c = "?" -> 63
      [] c = "S" -> 83
      [] c = "e" -> 101
      [] c = "h" -> 104
      [] c = "l" -> 108
      [] c = "s" -> 115
      [] c = "v" -> 118
      [] c = "x" -> 120

optstring == <<"?", "h", "v", "l", "s", "e", "S">>

name_help == <<"h", "e", "l", "p">>
name_version == <<"v", "e", "r", "s", "i", "o", "n">>
name_legend == <<"l", "e", "g", "e", "n", "d">>
name_strip == <<"s", "t", "r", "i", "p">>
name_escape == <<"e", "s", "c", "a", "p", "e">>
name_no_sanitize == <<"n", "o", "-", "s", "a", "n", "i", "t", "i", "z", "e">>
name_demo == <<"d", "e", "m", "o">>

long_options ==
    <<[name |-> name_help, flag |-> nullptr, val |-> ord("h")],
      [name |-> name_version, flag |-> nullptr, val |-> ord("v")],
      [name |-> name_legend, flag |-> nullptr, val |-> ord("l")],
      [name |-> name_strip, flag |-> "f_strip", val |-> ord("s")],
      [name |-> name_escape, flag |-> "f_escape", val |-> ord("e")],
      [name |-> name_no_sanitize, flag |-> "f_no_sanitize", val |-> ord("S")],
      [name |-> name_demo, flag |-> nullptr, val |-> 0]>>

\* texts::DEMO, shortened to one tag
DEMO == <<"{", "*", "-", "-", "D", "-", "-", "}">>

\* getopt_long on a command line whose options are single tokens: -c or --name.
\* It yields the value returned, the index of the long option, the flag it has
\* written with the value (nullptr if none), the new optind and its own message.
getopt_long(argv, optind) ==
    LET none(opt, ind, msg) ==
            [opt |-> opt, opt_idx |-> 0, flag |-> nullptr, val |-> 0, optind |-> ind, msg |-> msg]
        token == argv[optind]
        name == SubSeq(token, 3, Len(token))
        found == {i \in 1..Len(long_options) : long_options[i].name = name}
        i == CHOOSE i \in found : TRUE
    IN  IF optind > Len(argv) \/ Len(argv[optind]) < 2 \/ argv[optind][1] # "-"
        THEN none(-1, optind, <<>>)
        ELSE IF token = <<"-", "-">> THEN none(-1, optind + 1, <<>>)
        ELSE IF token[2] = "-"
        THEN IF found = {} THEN none(ord("?"), optind + 1, <<"unrecognized option">>)
             ELSE IF long_options[i].flag # nullptr
             THEN [opt |-> 0, opt_idx |-> i, flag |-> long_options[i].flag,
                   val |-> long_options[i].val, optind |-> optind + 1, msg |-> <<>>]
             ELSE [opt |-> long_options[i].val, opt_idx |-> i, flag |-> nullptr, val |-> 0,
                   optind |-> optind + 1, msg |-> <<>>]
        ELSE IF token[2] \in Chars(optstring)
        THEN none(ord(token[2]), optind + 1, <<>>)
        ELSE none(ord("?"), optind + 1, <<"invalid option">>)

\* one automaton for all the arguments: the automaton of the previous argument is
\* taken over as it was left
shared_automaton(p, out) ==
    IF phase = "destroyed"
    THEN [automaton EXCEPT !.out = out]
    ELSE LET a == constructor(p.f_strip # 0, p.f_escape # 0, ~(p.f_no_sanitize # 0), CLASSIC)
         IN  [a EXCEPT !.out = out \o @]

\* the automaton main constructs, writing to the stream that holds out
local_automaton(p, out) ==
    LET a == constructor(p.f_strip # 0, p.f_escape # 0, ~(p.f_no_sanitize # 0), CLASSIC)
    IN  [a EXCEPT !.out = out \o @]

\* one pass of the option loop: getopt_long and the switch
GetOpt ==
    /\ process.pc = "getopt"
    /\ LET g == getopt_long(process.argv, process.optind)
           p == [process EXCEPT !.optind = g.optind,
                                !.stderr = @ \o g.msg,
                                !.f_strip = IF g.flag = "f_strip" THEN g.val ELSE @,
                                !.f_escape = IF g.flag = "f_escape" THEN g.val ELSE @,
                                !.f_no_sanitize = IF g.flag = "f_no_sanitize" THEN g.val ELSE @]
           usage == [p EXCEPT !.stderr = @ \o <<"USAGE", "(try using -h or --help for more info)">>,
                              !.status = EXIT_FAILURE, !.pc = "exit"]
       IN  process' =
               IF g.opt = -1
               THEN [p EXCEPT !.pc = IF p.optind < Len(p.argv) + 1 THEN "args" ELSE "stdin"]
               ELSE IF g.opt = 0
               THEN IF long_options[g.opt_idx].name = name_demo
                    THEN [p EXCEPT !.istream = "DEMO"]
                    ELSE usage
               ELSE IF g.opt = ord("?") THEN usage
               ELSE IF g.opt = ord("h")
               THEN [p EXCEPT !.stdout = @ \o <<Lit("USAGE"), Lit("HELP")>>,
                              !.status = EXIT_SUCCESS, !.pc = "exit"]
               ELSE IF g.opt = ord("v")
               THEN [p EXCEPT !.stdout = @ \o <<Lit("VERSION")>>,
                              !.status = EXIT_SUCCESS, !.pc = "exit"]
               ELSE IF g.opt = ord("l")
               THEN [p EXCEPT !.stdout = @ \o <<Lit("LEGEND")>>,
                              !.status = EXIT_SUCCESS, !.pc = "exit"]
               ELSE IF g.opt = ord("e") THEN [p EXCEPT !.f_escape = 1]
               ELSE IF g.opt = ord("s") THEN [p EXCEPT !.f_strip = 1]
               ELSE IF g.opt = ord("S") THEN [p EXCEPT !.f_no_sanitize = 1]
               ELSE p
    /\ UNCHANGED <<automaton, twin, trace, fed, plan, phase>>

\* the head of one pass of the loop over the positional arguments: the separator
\* is printed and the argument's automaton constructed
BeginArgument ==
    /\ process.pc = "args"
    /\ process.optind < Len(process.argv) + 1
    /\ automaton' = local_automaton(process, process.stdout \o Lits(process.separator))
    /\ twin' = constructor(~(process.f_strip # 0), process.f_escape # 0,
                        ~(process.f_no_sanitize # 0), CLASSIC)
    /\ trace' = <<local_automaton(process, process.stdout \o Lits(process.separator))>>
    /\ fed' = <<>>
    /\ plan' = Singletons(process.argv[process.optind])
    /\ phase' = "running"
    /\ process' = [process EXCEPT !.pc = "arg"]

\* the end of the pass: the argument's automaton goes out of scope
EndArgument ==
    /\ process.pc = "arg"
    /\ Len(fed) = Len(plan)
    /\ automaton' = destructor(automaton)
    /\ phase' = "destroyed"
    /\ process' = [process EXCEPT !.separator = <<" ">>, !.optind = @ + 1, !.pc = "args",
                                  !.stdout = destructor(automaton).out]
    /\ UNCHANGED <<twin, trace, fed, plan>>

\* no positional argument: the automaton of the input stream is constructed
BeginStdin ==
    /\ process.pc = "stdin"
    /\ automaton' = local_automaton(process, process.stdout)
    /\ twin' = constructor(~(process.f_strip # 0), process.f_escape # 0,
                        ~(process.f_no_sanitize # 0), CLASSIC)
    /\ trace' = <<local_automaton(process, process.stdout)>>
    /\ fed' = <<>>
    /\ plan' = Singletons(IF process.istream = "DEMO" THEN DEMO ELSE process.input)
    /\ phase' = "running"
    /\ process' = [process EXCEPT !.pc = "reading"]

\* return EXIT_SUCCESS, after the last positional argument or at the end of the
\* input stream, whose automaton goes out of scope
Return ==
    /\ \/ process.pc = "args" /\ ~(process.optind < Len(process.argv) + 1)
       \/ process.pc = "reading" /\ Len(fed) = Len(plan)
    /\ automaton' = IF process.pc = "reading" THEN destructor(automaton) ELSE automaton
    /\ phase' = "destroyed"
    /\ process' = [process EXCEPT !.status = EXIT_SUCCESS, !.pc = "exit",
                                  !.stdout = IF process.pc = "reading"
                                             THEN destructor(automaton).out ELSE @]
    /\ UNCHANGED <<twin, trace, fed, plan>>

\* the characters of an argument or of the input stream are accepted one by one
AcceptInput == process.pc \in {"arg", "reading"} /\ Accept

NextMain == GetOpt \/ BeginArgument \/ AcceptInput \/ EndArgument \/ BeginStdin \/ Return

\* main is entered with the command line argv and the input stream input
Run(argv, input) ==
    /\ process = [Idle EXCEPT !.pc = "getopt", !.argv = argv, !.input = input]
    /\ automaton = nullptr
    /\ twin = nullptr
    /\ trace = <<>>
    /\ fed = <<>>
    /\ plan = <<>>
    /\ phase = "none"

\* the sequences of at most n elements of S
UpTo(n, S) == UNION {[1..k -> S] : k \in 0..n}

ShortFlags == {<<"-", "s">>, <<"-", "e">>, <<"-", "S">>}

\* the three short flags, each present or not
FlagLines ==
    {SelectSeq(<<<<"-", "s">>, <<"-", "e">>, <<"-", "S">>>>, LAMBDA t : t \in F) :
        F \in SUBSET ShortFlags}

\* positional arguments: an unclosed tag, a close delimiter at depth 1, an open tag
\* pending in the buffer, an escape sequence
Arguments ==
    {<<"{", "r", "-", "-", "x">>, <<"y", "-", "-", "}">>, <<"{", "*", "-">>,
     <<ESCAPE_CHAR, "n">>}

InitMain ==
    \E flags \in FlagLines, args \in UpTo(MaxArgs, Arguments) :
        Run(flags \o args, <<"{", "r", "-", "-", "x">>)

SpecMain == InitMain /\ [][NextMain]_vars

IsOptionToken(t) == Len(t) >= 2 /\ t[1] = "-"

IsPositional(t) == ~IsOptionToken(t)

Options == SelectSeq(process.argv, IsOptionToken)

Positionals == SelectSeq(process.argv, IsPositional)

\* an automaton of its own, constructed with the flags main has read
Fresh ==
    constructor(process.f_strip # 0, process.f_escape # 0, ~(process.f_no_sanitize # 0), CLASSIC)

RECURSIVE Feed(_, _)
\* the automaton a after the characters of s
Feed(a, s) == IF s = <<>> THEN a ELSE Feed(accept(a, Head(s)), Tail(s))

\* all that an automaton of its own writes for the argument arg, from its
\* construction to its destruction
Alone(arg) == destructor(Feed(Fresh, arg)).out

RECURSIVE Joined(_)
\* the outputs of the arguments args, each written alone, with one space between
\* two of them
Joined(args) ==
    IF args = <<>> THEN <<>>
    ELSE IF Len(args) = 1 THEN Alone(args[1])
    ELSE Alone(args[1]) \o <<Lit(" ")>> \o Joined(Tail(args))

\* the automaton a without what it has written
State(a) == [f \in DOMAIN a \ {"out"} |-> a[f]]

(***************************************************************************)
(* C19: each positional argument is processed by an automaton of its own   *)
(* that starts at depth 1 with the initial style and an empty buffer:      *)
(* while argument i is read the automaton is in the state of an automaton  *)
(* fed the characters of argument i alone, whatever the arguments before   *)
(* it left open or pending; stdout holds the complete outputs of the       *)
(* arguments before i (flushed buffer and sanitize code included), each    *)
(* followed by one space, then the output of argument i so far; at exit    *)
(* stdout is the outputs of the arguments, each as written alone, joined   *)
(* by single spaces.                                                       *)
(***************************************************************************)
C19_PerUnitIsolation ==
    /\ process.pc = "arg" =>
           LET i == process.optind - Len(Options)
               before == SubSeq(Positionals, 1, i - 1)
           IN  /\ Depth(trace[1]) = 1
               /\ top(trace[1]) = Format_initial
               /\ trace[1].buffer_ = <<>>
               /\ trace[1].state_ = "DEFAULT"
               /\ fed = SubSeq(Positionals[i], 1, Len(fed))
               /\ State(automaton) = State(Feed(Fresh, fed))
               /\ automaton.out =
                      Joined(before) \o (IF i > 1 THEN <<Lit(" ")>> ELSE <<>>)
                          \o Feed(Fresh, fed).out
    /\ process.pc = "exit" /\ process.status = EXIT_SUCCESS /\ Positionals # <<>> =>
           process.stdout = Joined(Positionals)

\* the arguments "{r--x" and "{*-": the tag left open and the sanitize code of the
\* first, a space, and the second written from the initial style, its pending
\* buffer flushed
C19_Witness ==
    /\ process.pc = "exit"
    /\ process.argv = <<<<"{", "r", "-", "-", "x">>, <<"{", "*", "-">>>>
    /\ process.stdout =
           <<InitialCode, Ansi(<<0, 31, 49>>), Lit("x"), InitialCode, Lit(" "),
             InitialCode, Lit("{"), Lit("*"), Lit("-"), InitialCode>>

(***************************************************************************)
(* Command lines of at most MaxOptions options, each documented in the     *)
(* help text in its short or long form, or unknown, followed by one        *)
(* positional argument or by none.                                         *)
(***************************************************************************)
Short(c) == <<"-", c>>

Long(name) == <<"-", "-">> \o name

\* the short and the long form of the options of texts::HELP
Forms ==
    {<<Short("v"), Long(name_version)>>, <<Short("l"), Long(name_legend)>>,
     <<Short("s"), Long(name_strip)>>, <<Short("e"), Long(name_escape)>>,
     <<Short("S"), Long(name_no_sanitize)>>, <<Short("h"), Long(name_help)>>}

Documented == {f[1] : f \in Forms} \cup {f[2] : f \in Forms} \cup {Long(name_demo)}

Unknown == {Short("x"), Short("?"), Long(<<"b", "o", "g", "u", "s">>)}

OptionTokens == Documented \cup Unknown

InitOptions ==
    \E opts \in UpTo(MaxOptions, OptionTokens), args \in UpTo(1, {<<"{", "r", "-", "-", "x">>}) :
        Run(opts \o args, <<"{", "*", "-", "-", "y">>)

SpecOptions == InitOptions /\ [][NextMain]_vars

\* the options that print a text and end the program
Informational ==
    {Short("h"), Long(name_help), Short("v"), Long(name_version), Short("l"), Long(name_legend)}

LongFlags == {Long(name_strip), Long(name_escape), Long(name_no_sanitize)}

Given(short, long) == \E i \in 1..Len(Options) : Options[i] \in {short, long}

\* what the text printed by the informational option t is
TextOf(t) ==
    IF t \in {Short("h"), Long(name_help)} THEN <<Lit("USAGE"), Lit("HELP")>>
    ELSE IF t \in {Short("v"), Long(name_version)} THEN <<Lit("VERSION")>>
    ELSE <<Lit("LEGEND")>>

\* the program has ended, and the options of the set D behave as documented: a
\* command line with options of D only ends with exit code 0 and nothing on
\* stderr; without an informational option each flag is set exactly if its option
\* is given and the input is processed under these flags; the first informational
\* option prints its text; the exit code is not 0 only if an option is not in D
AcceptedAsDocumented(D) ==
    process.pc = "exit" =>
        LET n == Len(Options)
            known(k) == \A i \in 1..k : Options[i] \in D
            plain(k) == \A i \in 1..k : Options[i] \in D \ Informational
        IN  /\ known(n) => process.status = EXIT_SUCCESS /\ process.stderr = <<>>
            /\ process.status # EXIT_SUCCESS => ~known(n)
            /\ plain(n) =>
                   /\ process.f_strip # 0 <=> Given(Short("s"), Long(name_strip))
                   /\ process.f_escape # 0 <=> Given(Short("e"), Long(name_escape))
                   /\ process.f_no_sanitize # 0 <=> Given(Short("S"), Long(name_no_sanitize))
                   /\ process.stdout =
                          IF Positionals # <<>> THEN Joined(Positionals)
                          ELSE IF Given(Long(name_demo), Long(name_demo)) THEN Alone(DEMO)
                          ELSE Alone(process.input)
            /\ \A k \in 1..n :
                   plain(k - 1) /\ Options[k] \in D \cap Informational =>
                       process.stdout = TextOf(Options[k])

(***************************************************************************)
(* C20: every documented option is accepted in its short and in its long   *)
(* form with the same effect: --strip, --escape and --no-sanitize set the  *)
(* flag of -s, -e and -S, the input is processed and the exit code is 0;   *)
(* only an unrecognized option yields the usage message and an exit code   *)
(* other than 0.                                                           *)
(***************************************************************************)
C20_CliOptions == AcceptedAsDocumented(Documented)

\* C20 without the long forms of the three flags: the other documented options
\* behave as documented, and the first option that is unknown or the long form of a
\* flag ends the program with the usage message and EXIT_FAILURE
C20_CliOptionsShortFlags ==
    /\ AcceptedAsDocumented(Documented \ LongFlags)
    /\ process.pc = "exit" =>
           \A k \in 1..Len(Options) :
               /\ \A i \in 1..(k - 1) : Options[i] \in Documented \ (LongFlags \cup Informational)
               /\ Options[k] \in LongFlags \cup Unknown
               => /\ process.status = EXIT_FAILURE
                  /\ \E i \in 1..Len(process.stderr) : process.stderr[i] = "USAGE"
                  /\ process.stdout = <<>>

\* "--strip {r--x": the flag is written, then the usage message and EXIT_FAILURE
C20_Witness ==
    /\ process.pc = "exit"
    /\ process.argv = <<Long(name_strip), <<"{", "r", "-", "-", "x">>>>
    /\ process.f_strip = ord("s")
    /\ process.status = EXIT_FAILURE
    /\ process.stdout = <<>>

(***************************************************************************)
(* Selection of the syntax: a caller holds three strings and a name, each  *)
(* string possibly missing or empty, and calls TagSyntax::from_args or     *)
(* TagSyntax::find; process.syntax is the pointer returned.                *)
(***************************************************************************)
Strings == {null_string, <<>>, <<"{">>, <<"-", "-">>, <<"@", "@">>, <<"-", "-", "}">>}

Names == {"classic", "bracket", "xml", "custom", "", "Classic", "class", "xml "}

InitSyntax ==
    /\ \E o \in Strings, e \in Strings, c \in Strings, n \in Names :
           process = [pc |-> "select", opening |-> o, separator |-> e, closing |-> c,
                      name |-> n, syntax |-> null_syntax]
    /\ automaton = nullptr
    /\ twin = nullptr
    /\ trace = <<>>
    /\ fed = <<>>
    /\ plan = <<>>
    /\ phase = "none"

FromArgs ==
    /\ process.pc = "select"
    /\ process' = [process EXCEPT
                       !.pc = "from_args",
                       !.syntax = from_args(process.opening, process.separator, process.closing)]
    /\ UNCHANGED <<automaton, twin, trace, fed, plan, phase>>

Find ==
    /\ process.pc = "select"
    /\ process' = [process EXCEPT !.pc = "find", !.syntax = find_syntax(process.name)]
    /\ UNCHANGED <<automaton, twin, trace, fed, plan, phase>>

NextSyntax == FromArgs \/ Find

SpecSyntax == InitSyntax /\ [][NextSyntax]_vars

Present(s) == s # null_string /\ s # <<>>

(***************************************************************************)
(* C21: from_args returns a descriptor named "custom" that carries exactly *)
(* the three given strings when all three are present and non-empty, and   *)
(* a null pointer if one of them is missing or empty; find returns the     *)
(* preset whose name is the argument (classic, bracket, xml) and a null    *)
(* pointer for every other name.                                           *)
(***************************************************************************)
C21_SyntaxConstruction ==
    /\ process.pc = "from_args" =>
           IF Present(process.opening) /\ Present(process.separator) /\ Present(process.closing)
           THEN process.syntax = [name |-> "custom", open_tag |-> process.opening,
                                  open_end |-> process.separator,
                                  close_tag |-> process.closing]
           ELSE process.syntax = null_syntax
    /\ process.pc = "find" =>
           process.syntax =
               CASE process.name = "classic" ->
                        [name |-> "classic", open_tag |-> <<"{">>, open_end |-> <<"-", "-">>,
                         close_tag |-> <<"-", "-", "}">>]
                 [] process.name = "bracket" ->
                        [name |-> "bracket", open_tag |-> <<"[">>, open_end |-> <<"]">>,
                         close_tag |-> <<"[", "/", "]">>]
                 [] process.name = "xml" ->
                        [name |-> "xml", open_tag |-> <<"<">>, open_end |-> <<">">>,
                         close_tag |-> <<"<", "/", ">">>]
                 [] OTHER -> null_syntax

\* from_args("@@", "--", "") fails
C21_Witness ==
    /\ process.pc = "from_args"
    /\ process.opening = <<"@", "@">>
    /\ process.separator = <<"-", "-">>
    /\ process.closing = <<>>
    /\ process.syntax = null_syntax

(***************************************************************************)
(* Pushes: CLASSIC, not stripped; two open tags one after the other, the   *)
(* body of each drawn from bodies with and without colours, attributes,    *)
(* the token of the current colour and the reset token.                    *)
(***************************************************************************)
PushBodies ==
    {<<>>, <<"r">>, <<COLOR_CURRENT, "g">>, <<"R", "g">>, <<COLOR_DEFAULT, COLOR_CURRENT>>,
     <<COLOR_CURRENT>>, <<COLOR_CURRENT, COLOR_CURRENT>>, <<COLOR_CURRENT, "K">>, <<style_BOLD>>,
     <<style_BOLD, style_UNDERLINE, "b">>, <<RESET_CHAR>>, <<RESET_CHAR, style_BOLD>>,
     <<style_UNDERLINE, COLOR_CURRENT, "B">>, <<style_BLINK, RESET_CHAR, "y">>}

PushPlans ==
    {OpenTag(CLASSIC, Singletons(B1)) \o OpenTag(CLASSIC, Singletons(B2)) :
        B1 \in PushBodies, B2 \in PushBodies}

InitPush == \E p \in PushPlans : Start(FALSE, FALSE, TRUE, CLASSIC, p)

SpecPush == InitPush /\ [][Next]_vars

\* the snapshot the push protocol computes from the top S and the relative spec R
PushOf(S, R) ==
    LET base == IF R.reset = 1 THEN Format_initial ELSE S
    IN  [k \in DOMAIN S |->
            IF k \in {AttrField(c) : c \in Attributes} THEN (base[k] + R[k]) % 2
            ELSE IF k \in {"fg_color", "fg_bright"}
            THEN IF R.fg_color # CURRENT THEN R[k] ELSE base[k]
            ELSE IF k \in {"bg_color", "bg_bright"}
            THEN IF R.bg_color # CURRENT THEN R[k] ELSE base[k]
            ELSE base[k]]

(***************************************************************************)
(* C22: the snapshot pushed is computed from the top snapshot S (from the  *)
(* initial snapshot if the relative spec R has reset set) by XOR of the    *)
(* attributes with R's, with the foreground colour and brightness replaced *)
(* by R's exactly if R's foreground is not CURRENT and the background      *)
(* likewise, independently of the foreground; the entries below are kept   *)
(* and the control code written is the rendering of the pushed snapshot.   *)
(***************************************************************************)
C22_PushProtocol ==
    Pushed =>
        LET S == top(Before(1))
            R == Before(1).bracket_format_
            new == top(Before(0))
        IN  /\ new = PushOf(S, R)
            /\ Before(0).format_stack_ = Append(Before(1).format_stack_, new)
            /\ Len(LastWritten) = 1
            /\ LastWritten[1].ansi
            /\ RendersSnapshot(LastWritten[1].codes, new)
            /\ LastWritten[1].codes[Len(LastWritten[1].codes) - 1]
                   = ColourCode(30, new.fg_color, new.fg_bright)
            /\ LastWritten[1].codes[Len(LastWritten[1].codes)]
                   = ColourCode(40, new.bg_color, new.bg_bright)

\* "{Rg--{_;B--": bright red is kept, the background becomes bright blue
C22_Witness ==
    /\ fed = <<"{", "R", "g", "-", "-", "{", style_UNDERLINE, COLOR_CURRENT, "B", "-", "-">>
    /\ Pushed
    /\ Before(1).bracket_format_.fg_color = CURRENT
    /\ LastWritten = <<Ansi(<<0, 4, 91, 104>>)>>

\* the initial snapshot: default foreground and background, no attribute, reset
InitialSnapshot ==
    [fg_color |-> 9, fg_bright |-> 0, bg_color |-> 9, bg_bright |-> 0, reversed |-> 0,
     blink |-> 0, bold |-> 0, italic |-> 0, underline |-> 0, overline |-> 0,
     double_underline |-> 0, strikethrough |-> 0, dim |-> 0, reset |-> 1, valid |-> 1]

BottomFixed(a) == Len(a.format_stack_) >= 1 /\ a.format_stack_[1] = InitialSnapshot

(***************************************************************************)
(* C23: in every reachable state the format stack is not empty and its     *)
(* bottom entry is the initial snapshot; no sequence of open tags, close   *)
(* delimiters, escapes or malformed tags removes or alters it.             *)
(***************************************************************************)
C23_BottomFixed ==
    /\ BottomFixed(automaton)
    /\ BottomFixed(twin)
    /\ \A k \in 1..Len(trace) : BottomFixed(trace[k])

\* a tag was open and is closed again, and more close delimiter characters follow
C23_Witness ==
    /\ phase = "destroyed"
    /\ \E k \in 1..Len(trace) : Depth(trace[k]) = 2
    /\ Depth(automaton) = 1
    /\ LastFed \in Chars(automaton.syntax_.close_tag)
    /\ BottomFixed(automaton)

\* a hue 0..7 or DEFAULT
IsStackColour(color) == color \in 0..7 \/ color = 9

NoCurrent(a) ==
    \A i \in 1..Len(a.format_stack_) :
        /\ a.format_stack_[i].fg_color # 10
        /\ a.format_stack_[i].bg_color # 10
        /\ IsStackColour(a.format_stack_[i].fg_color)
        /\ IsStackColour(a.format_stack_[i].bg_color)

(***************************************************************************)
(* C24: in every reachable state no snapshot on the format stack holds the *)
(* CURRENT sentinel as foreground or background: the colours of every      *)
(* stack entry are a hue 0..7 or DEFAULT, also after tags such as ";" or   *)
(* ";;" that name CURRENT.                                                 *)
(***************************************************************************)
C24_NoCurrentOnStack ==
    /\ NoCurrent(automaton)
    /\ \A k \in 1..Len(trace) : NoCurrent(trace[k])

\* "{;;--" over the open tag "{Rg--": bright red on green again
C24_Witness ==
    /\ fed = <<"{", "R", "g", "-", "-", "{", COLOR_CURRENT, COLOR_CURRENT, "-", "-">>
    /\ Pushed
    /\ Before(1).bracket_format_.fg_color = CURRENT
    /\ Before(1).bracket_format_.bg_color = CURRENT
    /\ top(Before(0)).fg_color = 1
    /\ top(Before(0)).bg_color = 2

\* the buffer with the last character ends with the delimiter d
Completes(d) ==
    LET text == Before(1).buffer_ \o <<LastFed>>
    IN  Len(text) >= Len(d) /\ SubSeq(text, Len(text) - Len(d) + 1, Len(text)) = d

(***************************************************************************)
(* C25: the format stack changes only through push and pop.  One accept    *)
(* changes the depth by at most one; the depth grows, by exactly one, only *)
(* on the character that completes the open terminator in a tag body; it   *)
(* shrinks, by exactly one, only on the character that completes the close *)
(* delimiter while the depth is above 1; in every other step the whole     *)
(* stack is unchanged; the entries below the top are never modified.       *)
(***************************************************************************)
C25_StackFrame ==
    Len(fed) >= 1 =>
        LET old == Before(1).format_stack_
            new == Before(0).format_stack_
        IN  /\ Len(new) \in {Len(old) - 1, Len(old), Len(old) + 1}
            /\ Len(new) = Len(old) + 1 =>
                   /\ Before(1).state_ = "PARSE_OPENING_BRACKET"
                   /\ Completes(automaton.syntax_.open_end)
                   /\ SubSeq(new, 1, Len(old)) = old
            /\ Len(new) = Len(old) - 1 =>
                   /\ Len(old) > 1
                   /\ Completes(automaton.syntax_.close_tag)
                   /\ FedEndsWith(automaton.syntax_.close_tag)
                   /\ new = SubSeq(old, 1, Len(old) - 1)
            /\ Len(new) = Len(old) => new = old

\* "|r:|" under the custom syntax "|", ":", "|": a push at the third character, a
\* pop at the fourth
C25_Witness ==
    /\ fed = <<"|", "r", ":", "|">>
    /\ Depth(Before(2)) = 1
    /\ Depth(Before(1)) = 2
    /\ Depth(Before(0)) = 1
    /\ top(Before(1)).fg_color = 1

(***************************************************************************)
(* C26: the bound of the pending buffer                                     *)
(***************************************************************************)

Longest(syntax) ==
    LET lengths == {Len(syntax.open_tag), Len(syntax.open_end), Len(syntax.close_tag)}
    IN  CHOOSE n \in lengths : \A m \in lengths : m <= n

\* C26: after every accept, in every state and for every input, the pending
\* buffer is no longer than the longest of the three delimiter strings.
C26_BoundedBuffer ==
    \A n \in 0..Len(fed) - 1 :
        Len(Before(n).buffer_) <= Longest(automaton.syntax_)

\* "----" under CLASSIC: the fourth dash is held with the three before it
C26_Witness ==
    /\ automaton.syntax_ = CLASSIC
    /\ fed = <<"-", "-", "-", "-">>
    /\ Before(0).state_ = "DEFAULT"
    /\ Before(0).buffer_ = <<"-", "-", "-", "-">>
    /\ Before(0).out = Before(4).out

\* What holds: while a delimiter that opens a tag or an escape sequence is being
\* matched the buffer is within the bound.
C26_BoundedWhileMatching ==
    \A n \in 0..Len(fed) - 1 :
        Before(n).state_ \in {"PARSE_OPENING_TAG", "PARSE_CLOSING_TAG", "PARSE_ESCAPE"} =>
            Len(Before(n).buffer_) <= Longest(automaton.syntax_)

(***************************************************************************)
(* C27: what DEFAULT holds back                                             *)
(***************************************************************************)

IsProperPrefix(s, d) == Len(s) < Len(d) /\ SubSeq(d, 1, Len(s)) = s

HoldsProperPrefix(a) ==
    a.state_ = "DEFAULT" => IsProperPrefix(a.buffer_, a.syntax_.close_tag)

\* the accept that has just returned consumed the last character of a close
\* delimiter in DEFAULT at depth 1
ClosedAtDepthOne ==
    /\ Len(fed) >= 1
    /\ Before(1).state_ = "DEFAULT"
    /\ Depth(Before(1)) = 1
    /\ ~(automaton.escape_ /\ LastFed = ESCAPE_CHAR)
    /\ Completes(automaton.syntax_.close_tag)

\* C27: in DEFAULT, after accept returns, the pending buffer is empty or a proper
\* prefix of the close delimiter; a complete close delimiter at depth 1 is
\* written as text by the accept that consumes its last character.
C27_DefaultHoldsProperPrefix ==
    /\ \A n \in 0..Len(fed) - 1 : HoldsProperPrefix(Before(n))
    /\ ClosedAtDepthOne /\ LastFed # automaton.syntax_.open_tag[1] =>
           /\ Before(0).buffer_ = <<>>
           /\ Before(0).out = Before(1).out \o Lits(Before(1).buffer_ \o <<LastFed>>)

\* "--}" under CLASSIC at depth 1: the close delimiter is complete, nothing is
\* written and the three characters stay in the buffer
C27_Witness ==
    /\ automaton.syntax_ = CLASSIC
    /\ fed = <<"-", "-", "}">>
    /\ ClosedAtDepthOne
    /\ Before(0).state_ = "DEFAULT"
    /\ Before(0).buffer_ = <<"-", "-", "}">>
    /\ Before(0).out = Before(3).out

\* What holds: in DEFAULT a buffer that is not empty ends with a prefix of the
\* close delimiter, and at depth > 1 that prefix is never the whole delimiter.
C27_DefaultHoldsSuffix ==
    \A n \in 0..Len(fed) - 1 :
        Before(n).state_ = "DEFAULT" /\ Before(n).buffer_ # <<>> =>
            /\ could_match_prefix(Before(n), automaton.syntax_.close_tag)
            /\ Depth(Before(n)) > 1 =>
                   ~buffer_ends_with(Before(n), automaton.syntax_.close_tag)

(***************************************************************************)
(* C28: the first character of the open delimiter in DEFAULT               *)
(***************************************************************************)

\* the accept that has just returned ran handle_default on the first character
\* of the open delimiter, and buffer plus character did not end with the close
\* delimiter
OpenStartInDefault ==
    /\ Len(fed) >= 1
    /\ Before(1).state_ = "DEFAULT"
    /\ ~starts_escape(Before(1), LastFed)
    /\ LastFed = automaton.syntax_.open_tag[1]
    /\ ~Completes(automaton.syntax_.close_tag)

EntersTag ==
    /\ Before(0).buffer_ = <<LastFed>>
    /\ Before(0).state_ = IF Len(automaton.syntax_.open_tag) = 1
                          THEN "PARSE_OPENING_BRACKET"
                          ELSE "PARSE_OPENING_TAG"
    /\ Before(0).format_stack_ = Before(1).format_stack_

\* C28 as stated: on this path the pending buffer is empty, nothing is written,
\* the character is buffered and the state becomes OPENING_TAG, or OPENING_SPEC
\* when the open delimiter has one character.
C28_OpenStartBufferEmpty ==
    OpenStartInDefault =>
        /\ Before(1).buffer_ = <<>>
        /\ Before(0).out = Before(1).out
        /\ EntersTag

\* C28 as the program behaves: the pending buffer may hold text that ends with a
\* prefix of the close delimiter; it is written as literal text first, then the
\* character is buffered alone and the state becomes OPENING_TAG, or
\* OPENING_SPEC when the open delimiter has one character; the stack is unchanged.
C28_OpenStartFlushesHeld ==
    OpenStartInDefault =>
        /\ Before(0).out = Before(1).out \o Lits(Before(1).buffer_)
        /\ EntersTag

\* "-{" under CLASSIC: the held "-" is written when "{" arrives
C28_Witness ==
    /\ automaton.syntax_ = CLASSIC
    /\ fed = <<"-", "{">>
    /\ OpenStartInDefault
    /\ Before(1).buffer_ = <<"-">>
    /\ Before(0).out = Before(1).out \o <<Lit("-")>>
    /\ Before(0).state_ = "PARSE_OPENING_BRACKET"

(***************************************************************************)
(* Escape preemption: escape on, an input that brings the automaton into   *)
(* one of its states (DEFAULT with and without a held part of the close    *)
(* delimiter, the open delimiter half matched, a tag body, the close       *)
(* delimiter behind the open delimiter, skipped whitespace, each at depth  *)
(* 1 and inside an open tag), then the escape character, a selector, and   *)
(* MaxAfter characters of the delimiters.                                  *)
(***************************************************************************)
Positions(syntax) ==
    {<<>>,
     <<{syntax.close_tag[1]}>>,
     <<{syntax.open_tag[1]}>>,
     Singletons(syntax.open_tag) \o <<{"r"}>>,
     Singletons(syntax.open_tag) \o <<{"r"}, {syntax.open_end[1]}>>,
     Singletons(SubSeq(syntax.close_tag, 1, IF Len(syntax.close_tag) < 2 THEN 1 ELSE 2)),
     <<{ESCAPE_CHAR}, {TRIM_ESCAPE}, {" "}>>}

Selectors == {ESCAPE_CHAR, "n", TRIM_ESCAPE, "x", " "}

PreemptPlans(syntax) ==
    {opened \o position \o <<{ESCAPE_CHAR}, Selectors>>
            \o Free(MaxAfter, DelimChars(syntax) \cup {" "}) :
        opened \in {<<>>, OpenTag(syntax, <<{"g"}>>)}, position \in Positions(syntax)}

InitPreempt ==
    \E strip \in BOOLEAN, syntax \in ALL_STYLES \cup CustomSyntaxes :
        \E p \in PreemptPlans(syntax) : Start(strip, TRUE, TRUE, syntax, p)

SpecPreempt == InitPreempt /\ [][Next]_vars

\* the automaton a after the test of accept has taken the escape character
Preempted(a) ==
    [a EXCEPT !.out = @ \o Lits(a.buffer_), !.buffer_ = <<ESCAPE_CHAR>>,
              !.state_ = "PARSE_ESCAPE"]

\* C29: with escape enabled, in every state other than PARSE_ESCAPE an escape
\* character moves the automaton to PARSE_ESCAPE and the handler of the state
\* does not run (the pending text is written, the stack, the relative spec and
\* the counters are unchanged); in PARSE_ESCAPE an escape character is the
\* selector and writes one backslash.
C29_EscapePreemption ==
    Len(fed) >= 1 /\ automaton.escape_ /\ LastFed = ESCAPE_CHAR =>
        IF Before(1).state_ = "PARSE_ESCAPE"
        THEN /\ Before(0).out = Before(1).out \o <<Lit(ESCAPE_CHAR)>>
             /\ Before(0).buffer_ = <<>>
             /\ Before(0).state_ = "DEFAULT"
             /\ Before(0).format_stack_ = Before(1).format_stack_
        ELSE Before(0) = Preempted(Before(1))

\* "[/" under BRACKET, then two escape characters: the first leaves
\* PARSE_CLOSING_TAG for PARSE_ESCAPE, the second writes one backslash
C29_Witness ==
    /\ automaton.syntax_ = BRACKET
    /\ fed = <<"[", "/", ESCAPE_CHAR, ESCAPE_CHAR>>
    /\ Before(2).state_ = "PARSE_CLOSING_TAG"
    /\ Before(1).state_ = "PARSE_ESCAPE"
    /\ Before(0).state_ = "DEFAULT"
    /\ Before(0).out = Before(2).out \o Lits(<<"[", "/", ESCAPE_CHAR>>)

(***************************************************************************)
(* C30: an escape sequence inside a delimiter or a tag body                 *)
(***************************************************************************)

\* a delimiter or a tag body is being matched in a
Matching(a) ==
    \/ a.state_ \in {"PARSE_OPENING_TAG", "PARSE_OPENING_BRACKET", "PARSE_CLOSING_TAG"}
    \/ a.state_ = "DEFAULT" /\ a.buffer_ # <<>>

\* the last n + 2 characters are an escape character that arrived during a
\* match, its selector, and n more characters
EscapeInMatch(n) ==
    /\ Len(fed) >= n + 2
    /\ automaton.escape_
    /\ fed[Len(fed) - n - 1] = ESCAPE_CHAR
    /\ Matching(Before(n + 2))

NoCodeIn(items) == \A i \in 1..Len(items) : IsLit(items[i])

IdenticalSyntaxes == {syntax \in CustomSyntaxes : syntax.open_tag = syntax.close_tag}

IdenticalPlans(syntax, escape) ==
    {prefix \o Free(MaxAny, DelimChars(syntax) \cup {"r", "x"}
                                \cup (IF escape THEN {ESCAPE_CHAR} ELSE {})) :
        prefix \in {<<>>, OpenTag(syntax, <<{"r"}>>),
                    OpenTag(syntax, <<{"r"}>>) \o <<{"x"}>>,
                    OpenTag(syntax, <<{"r"}>>) \o <<{syntax.open_tag[1]}>>}}

InitIdentical ==
    \E escape \in BOOLEAN, syntax \in IdenticalSyntaxes :
        \E p \in IdenticalPlans(syntax, escape) : Start(FALSE, escape, TRUE, syntax, p)

SpecIdentical == InitIdentical /\ [][Next]_vars

Identical == automaton.syntax_.open_tag = automaton.syntax_.close_tag

\* the accept that has just returned completed the open delimiter where an open
\* delimiter is looked for: in DEFAULT when it has one character, in
\* PARSE_OPENING_TAG when it has more
CompletesOpenTag ==
    /\ Len(fed) >= 1
    /\ ~starts_escape(Before(1), LastFed)
    /\ \/ /\ Before(1).state_ = "DEFAULT"
          /\ <<LastFed>> = automaton.syntax_.open_tag
       \/ /\ Before(1).state_ = "PARSE_OPENING_TAG"
          /\ Before(1).buffer_ \o <<LastFed>> = automaton.syntax_.open_tag

PoppedOne ==
    LET old == Before(1).format_stack_
        new == SubSeq(old, 1, Len(old) - 1)
    IN  /\ Before(0).format_stack_ = new
        /\ Before(0).out = Before(1).out \o (IF automaton.strip_ THEN <<>>
                                             ELSE <<Ansi(to_ansi(new[Len(new)]))>>)
        /\ Before(0).state_ = "DEFAULT"
        /\ Before(0).buffer_ = <<>>

StartsBody ==
    /\ Before(0).state_ = "PARSE_OPENING_BRACKET"
    /\ Before(0).buffer_ = automaton.syntax_.open_tag
    /\ Before(0).format_stack_ = Before(1).format_stack_
    /\ Before(0).out = Before(1).out

\* C31: when the open and the close delimiter are the same string, a completed
\* occurrence at depth > 1 is a close (one pop, the code of the new top, DEFAULT,
\* empty buffer) and no tag body is ever read at depth > 1; at depth 1 the
\* occurrence starts a tag body; for one and for several characters.
C31_IdenticalDelimiters ==
    Identical =>
        /\ \A n \in 0..Len(fed) :
               Depth(Before(n)) > 1 => Before(n).state_ # "PARSE_OPENING_BRACKET"
        /\ CompletesOpenTag =>
               IF Depth(Before(1)) > 1 THEN PoppedOne ELSE StartsBody

\* "@@r:x@@" : the second "@@" closes the tag the first one opened
C31_Witness ==
    /\ fed = <<"@", "@", "r", ":", "x", "@", "@">>
    /\ Identical
    /\ CompletesOpenTag
    /\ Depth(Before(1)) = 2
    /\ Before(1).state_ = "PARSE_OPENING_TAG"
    /\ PoppedOne
    /\ Depth(Before(0)) = 1

\* C32: when the open and the close delimiter are the same string the stack
\* never has more than two entries.
C32_DepthAtMostTwo ==
    Identical => \A n \in 0..Len(fed) : Depth(Before(n)) <= 2

\* "|r:|r:" : the second "|" closes, "r:" is text and the depth is 1
C32_Witness ==
    /\ fed = <<"|", "r", ":", "|", "r", ":">>
    /\ Identical
    /\ Depth(Before(3)) = 2
    /\ Depth(Before(2)) = 1
    /\ Depth(Before(0)) = 1
    /\ Before(0).out = Before(2).out \o Lits(<<"r", ":">>)

(***************************************************************************)
(* C33: where PARSE_CLOSING_TAG is reachable                                *)
(***************************************************************************)

BeginsWith(s, prefix) == Len(s) >= Len(prefix) /\ SubSeq(s, 1, Len(prefix)) = prefix

\* C33: PARSE_CLOSING_TAG is entered only under a syntax whose close delimiter
\* begins with the open delimiter and is longer (BRACKET, XML and such custom
\* syntaxes); under CLASSIC and every other syntax it is never reached.
C33_ClosingTagOnlyIfOverlap ==
    \A n \in 0..Len(fed) :
        Before(n).state_ = "PARSE_CLOSING_TAG" =>
            /\ BeginsWith(automaton.syntax_.close_tag, automaton.syntax_.open_tag)
            /\ Len(automaton.syntax_.close_tag) > Len(automaton.syntax_.open_tag)
            /\ automaton.syntax_ # CLASSIC

\* "</" under XML: the tag body has become the start of a close delimiter
C33_Witness ==
    /\ automaton.syntax_ = XML
    /\ fed = <<"<", "/">>
    /\ Before(1).state_ = "PARSE_OPENING_BRACKET"
    /\ Before(0).state_ = "PARSE_CLOSING_TAG"
    /\ Before(0).buffer_ = <<"<", "/">>

(***************************************************************************)
(* C34: the close delimiter and its divergence in PARSE_CLOSING_TAG         *)
(***************************************************************************)

RECURSIVE ReadAsBody(_, _)

\* the characters of text read by an automaton that is in a tag body
ReadAsBody(a, text) ==
    IF text = <<>>
    THEN a
    ELSE ReadAsBody(IF a.state_ = "PARSE_OPENING_BRACKET"
                    THEN handle_opening_bracket(a, Head(text))
                    ELSE accept(a, Head(text)),
                    Tail(text))

\* the buffered text and the character c read again as an open tag: the open
\* delimiter, then a tag body in which the start of the close delimiter is not
\* looked for
Reevaluated(a, c) ==
    LET open_tag == a.syntax_.open_tag
        text == Append(a.buffer_, c)
        fresh == [a EXCEPT !.syntax_.close_tag = <<NUL>>,
                           !.buffer_ = open_tag,
                           !.bracket_format_ = Format_empty,
                           !.parsed_colors_ = 0, !.parsed_styles_ = 0,
                           !.state_ = "PARSE_OPENING_BRACKET"]
        read == ReadAsBody(fresh, SubSeq(text, Len(open_tag) + 1, Len(text)))
    IN  [read EXCEPT !.syntax_ = a.syntax_]

InClosingTag ==
    /\ Len(fed) >= 1
    /\ Before(1).state_ = "PARSE_CLOSING_TAG"
    /\ ~starts_escape(Before(1), LastFed)

\* the character leaves the close delimiter before it is complete
Diverges ==
    /\ InClosingTag
    /\ Before(1).buffer_ # automaton.syntax_.close_tag
    /\ ~BeginsWith(automaton.syntax_.close_tag, Before(1).buffer_ \o <<LastFed>>)

ClosesInClosingTag ==
    /\ InClosingTag
    /\ Before(1).buffer_ \o <<LastFed>> = automaton.syntax_.close_tag
    /\ Depth(Before(1)) > 1

\* C34: in PARSE_CLOSING_TAG a completed close delimiter at depth > 1 pops once
\* and writes the code of the new top; a character that diverges from the close
\* delimiter makes the automaton read the buffered text again as an open tag, so
\* that "[/*]" under BRACKET pushes italic and bold.
C34_ClosingTagReevaluates ==
    /\ ClosesInClosingTag => PoppedOne
    /\ Diverges => Before(0) = Reevaluated(Before(1), LastFed)
    /\ automaton.syntax_ = BRACKET /\ fed = <<"[", "/", "*", "]">> =>
           /\ Depth(Before(0)) = 2
           /\ top(Before(0)).italic = 1
           /\ top(Before(0)).bold = 1

\* "[/*]" under BRACKET: at "*" the buffered "[/*" is written as text, "]"
\* follows as text and nothing is pushed
C34_Witness ==
    /\ automaton.syntax_ = BRACKET
    /\ fed = <<"[", "/", "*", "]">>
    /\ Before(2).state_ = "PARSE_CLOSING_TAG"
    /\ Before(1).state_ = "DEFAULT"
    /\ Before(1).out = Before(2).out \o Lits(<<"[", "/", "*">>)
    /\ Before(0).out = Before(2).out \o Lits(<<"[", "/", "*", "]">>)
    /\ Depth(Before(0)) = 1

\* What holds: the close, and a divergence on a character that is no token of a
\* tag body; on a token the buffered text is written and the state is DEFAULT.
C34_ClosingTagFlushes ==
    /\ ClosesInClosingTag => PoppedOne
    /\ Diverges =>
           /\ Before(0) = [flush_buffer(buffer_char(Before(1), LastFed))
                              EXCEPT !.state_ = "DEFAULT"]
           /\ Reevaluated(Before(1), LastFed).state_ = "DEFAULT" =>
                  Before(0) = Reevaluated(Before(1), LastFed)

(***************************************************************************)
(* Recovery after an unbalanced close: the presets with every combination  *)
(* of the flags; nothing, a text character or a balanced pair of tags,     *)
(* then up to MaxClose close delimiters at depth 1, an open tag with a     *)
(* one-token body and a text character.                                    *)
(***************************************************************************)
RecoveryTokens == {"r", "G", style_BOLD}

RecoveryPlans(syntax) ==
    {prefix \o Repeat(Singletons(syntax.close_tag), k)
            \o OpenTag(syntax, <<RecoveryTokens>>) \o <<{"x"}>> :
        prefix \in {<<>>, <<{"x"}>>,
                    OpenTag(syntax, <<{"g"}>>) \o Singletons(syntax.close_tag)},
        k \in 1..MaxClose}

InitRecovery ==
    \E strip \in BOOLEAN, escape \in BOOLEAN, sanitize \in BOOLEAN, syntax \in ALL_STYLES :
        \E p \in RecoveryPlans(syntax) : Start(strip, escape, sanitize, syntax, p)

SpecRecovery == InitRecovery /\ [][Next]_vars

\* the input ends with a close delimiter whose last character arrived at depth 1
\* and left the depth at 1, and the open tag t directly behind it
TagAfterUnbalancedClose(t) ==
    LET close_tag == automaton.syntax_.close_tag
        n == Len(t)
    IN  /\ Len(fed) >= Len(close_tag) + n
        /\ SubSeq(fed, Len(fed) - n + 1, Len(fed)) = t
        /\ SubSeq(fed, Len(fed) - n - Len(close_tag) + 1, Len(fed) - n) = close_tag
        /\ Depth(Before(n + 1)) = 1
        /\ Depth(Before(n)) = 1

\* the tag t has been applied by the last accept: one push, its code written,
\* and none of its characters written as text
TagApplied(t) ==
    /\ Depth(Before(1)) = 1
    /\ Depth(Before(0)) = 2
    /\ top(Before(0)) # Format_initial
    /\ ~automaton.strip_ => LastWritten = <<Ansi(to_ansi(top(Before(0))))>>
    /\ LitsOnly(Before(0).out)
           = LitsOnly(Before(Len(t)).out) \o Lits(Before(Len(t)).buffer_)

\* C35: under CLASSIC, BRACKET and XML an open tag that directly follows a
\* complete close delimiter consumed at depth 1 is recognised and applied: one
\* push, its code written, the tag not written as text.
C35_RecoveryAfterUnbalancedClose ==
    automaton.syntax_ \in ALL_STYLES =>
        \A c \in RecoveryTokens :
            TagAfterUnbalancedClose(Tag(<<c>>)) => TagApplied(Tag(<<c>>))

\* "[/][r]" under BRACKET: the tag is written as text and nothing is pushed
C35_Witness ==
    /\ automaton.syntax_ = BRACKET
    /\ fed = <<"[", "/", "]", "[", "r", "]">>
    /\ TagAfterUnbalancedClose(<<"[", "r", "]">>)
    /\ Depth(Before(0)) = 1
    /\ LitsOnly(Before(0).out) = Lits(fed)
    /\ Before(0).state_ = "DEFAULT"

\* What holds: the same under CLASSIC, whose close delimiter is handled in DEFAULT.
C35_RecoveryClassic ==
    automaton.syntax_ = CLASSIC =>
        \A c \in RecoveryTokens :
            TagAfterUnbalancedClose(Tag(<<c>>)) => TagApplied(Tag(<<c>>))

\* "--}{r--" under CLASSIC: the close delimiter is written as text, red is pushed
C35_ClassicRecovers ==
    /\ automaton.syntax_ = CLASSIC
    /\ fed = <<"-", "-", "}", "{", "r", "-", "-">>
    /\ TagApplied(<<"{", "r", "-", "-">>)
    /\ LitsOnly(Before(0).out) = Lits(<<"-", "-", "}">>)

(***************************************************************************)
(* The hard-coded classic automaton of formatter.cpp.  Its members other   *)
(* than accept (emit_ansi, flush_buffer, push_format, pop_format,          *)
(* finish_bracket_parse, try_parse_color, try_parse_style, the constructor *)
(* and the destructor) have the bodies of their namesakes in automaton.h;  *)
(* the same record stands for both automata.                               *)
(***************************************************************************)
TAG_OPEN == "{"
TAG_CLOSE == "}"
DELIM_CHAR == "-"
DELIM_START == <<"-", "-">>
DELIM_END == <<"-", "-", "}">>

\* accept of formatter.cpp behind the escape tests and the whitespace skip
dispatch_classic(a, c) ==
    LET b == buffer_char(a, c)
        color == try_parse_color(b, c)
        style == try_parse_style(color.self, c)
    IN  IF c = TAG_OPEN
        THEN [buffer_char(flush_buffer(a), c)
                 EXCEPT !.bracket_format_ = Format_empty, !.parsed_colors_ = 0,
                        !.parsed_styles_ = 0, !.state_ = "PARSE_OPENING_BRACKET"]
        ELSE IF c = DELIM_CHAR
        THEN IF a.state_ = "PARSE_OPENING_BRACKET" /\ buffer_ends_with(b, DELIM_START)
             THEN finish_bracket_parse(emit_push(b, b.bracket_format_), TRUE)
             ELSE b
        ELSE IF a.state_ = "PARSE_OPENING_BRACKET"
        THEN IF color.ret THEN color.self
             ELSE IF style.ret THEN style.self
             ELSE finish_bracket_parse(style.self, FALSE)
        ELSE IF c = TAG_CLOSE
        THEN IF buffer_ends_with(b, DELIM_END) /\ Len(b.format_stack_) > 1
             THEN [emit_pop(flush_buffer(buffer_remove_suffix(b, Len(DELIM_END))))
                      EXCEPT !.state_ = "DEFAULT"]
             ELSE [flush_buffer(b) EXCEPT !.state_ = "DEFAULT"]
        ELSE [flush_buffer(b) EXCEPT !.state_ = "DEFAULT"]

\* FormatterAutomaton::accept of formatter.cpp
accept_classic(a, c) ==
    IF a.state_ = "PARSE_ESCAPE" THEN handle_escape(a, c)
    ELSE IF a.escape_ /\ c = ESCAPE_CHAR
    THEN [buffer_char(flush_buffer(a), c) EXCEPT !.state_ = "PARSE_ESCAPE"]
    ELSE IF a.state_ = "SKIP_WHITESPACE"
    THEN IF isspace(c) THEN a ELSE dispatch_classic([a EXCEPT !.state_ = "DEFAULT"], c)
    ELSE dispatch_classic(a, c)

RECURSIVE AcceptAll(_, _)

\* the hard-coded automaton a after the characters of input
AcceptAll(a, input) ==
    IF input = <<>> THEN a ELSE AcceptAll(accept_classic(a, Head(input)), Tail(input))

\* the hard-coded automaton constructed with the flags of automaton and fed the
\* same input
Hardcoded == AcceptAll(trace[1], fed)

SameOutcome ==
    /\ destructor(Before(0)).out = destructor(Hardcoded).out
    /\ Before(0).format_stack_ = Hardcoded.format_stack_
    /\ phase = "destroyed" => automaton.out = destructor(Hardcoded).out

\* C36: the automaton of automaton.h under CLASSIC and the hard-coded automaton
\* of formatter.cpp, constructed with the same flags and fed the same input,
\* have written the same output when they are destroyed and end with the same
\* stack.
C36_ClassicEquivalence ==
    automaton.syntax_ = CLASSIC => SameOutcome

\* "{{--": the automaton of automaton.h abandons the tag at the second "{" and
\* stays at depth 1, the hard-coded one starts the tag again and pushes
C36_Witness ==
    /\ automaton.syntax_ = CLASSIC
    /\ fed = <<"{", "{", "-", "-">>
    /\ Depth(Before(0)) = 1
    /\ Depth(Hardcoded) = 2
    /\ LitsOnly(destructor(Before(0)).out) = Lits(fed)
    /\ LitsOnly(destructor(Hardcoded).out) = Lits(<<"{">>)

\* the open delimiter has arrived inside a tag body
OpenInsideBody ==
    \E i \in 1..Len(fed) :
        /\ fed[i] = TAG_OPEN
        /\ trace[i].state_ = "PARSE_OPENING_BRACKET"

\* What holds: the two automata agree on every input in which no open
\* delimiter arrives inside a tag body.
C36_EquivalentUnlessOpenInsideBody ==
    automaton.syntax_ = CLASSIC /\ ~OpenInsideBody => SameOutcome

(***************************************************************************)
(* C37: the order of the tokens in a tag body                               *)
(***************************************************************************)

\* the rearrangements of the body B that keep the colour tokens in their order
Rearranged(B) ==
    LET n == Len(B)
        perms == {p \in [1..n -> 1..n] : \A i, j \in 1..n : i # j => p[i] # p[j]}
    IN  {R \in {[i \in 1..n |-> B[p[i]]] : p \in perms} :
            SelectSeq(R, IsColour) = SelectSeq(B, IsColour)}

\* the relative spec of a valid body: the attributes that occur, the reset token
\* if it occurs, the first colour token as foreground and the second as background
RelativeOf(B) ==
    LET colours == SelectSeq(B, IsColour)
        fg == IF Len(colours) >= 1 THEN TokenColour(colours[1]) ELSE TokenColour(COLOR_CURRENT)
        bg == IF Len(colours) >= 2 THEN TokenColour(colours[2]) ELSE TokenColour(COLOR_CURRENT)
    IN  [k \in DOMAIN Format_empty |->
            IF k \in {AttrField(c) : c \in Attributes \cap Chars(B)} THEN 1
            ELSE IF k = "reset" THEN IF RESET_CHAR \in Chars(B) THEN 1 ELSE 0
            ELSE IF k = "fg_color" THEN fg.color
            ELSE IF k = "fg_bright" THEN fg.bright
            ELSE IF k = "bg_color" THEN bg.color
            ELSE IF k = "bg_bright" THEN bg.bright
            ELSE Format_empty[k]]

\* the last character completed the open terminator of a tag with a valid body
PushedValidBody ==
    /\ Pushed
    /\ Before(1).buffer_ \o <<LastFed>> = Tag(ReadBody)
    /\ ValidBody(ReadBody)

\* C37: for a valid body the snapshot pushed and the code written depend only on
\* the set of attribute tokens, on whether the reset token occurs and on the
\* order of the colour tokens: every rearrangement of the body that keeps the
\* colour tokens in their order, read in place of the body, leaves the same
\* automaton.
C37_BodyOrderIndependent ==
    PushedValidBody =>
        LET B == ReadBody
            n == Len(Tag(B))
        IN  /\ Before(1).bracket_format_ = RelativeOf(B)
            /\ top(Before(0)) = PushOf(top(Before(1)), RelativeOf(B))
            /\ \A R \in Rearranged(B) : Feed(Before(n), Tag(R)) = Before(0)

\* "{*0r--" : the same automaton as after "{0r*--" and "{r0*--", the initial
\* style with bold and red
C37_Witness ==
    /\ automaton.syntax_ = CLASSIC
    /\ ~automaton.strip_
    /\ fed = <<"{", style_BOLD, RESET_CHAR, "r", "-", "-">>
    /\ PushedValidBody
    /\ <<RESET_CHAR, "r", style_BOLD>> \in Rearranged(ReadBody)
    /\ <<"r", RESET_CHAR, style_BOLD>> \in Rearranged(ReadBody)
    /\ top(Before(0)) = [Format_initial EXCEPT !.bold = 1, !.fg_color = 1]
    /\ LastWritten = <<Ansi(<<0, 1, 31, 49>>)>>

(***************************************************************************)
(* C38: the default colour is never bright                                  *)
(***************************************************************************)

DefaultIsDull(f) ==
    /\ f.fg_color = DEFAULT => f.fg_bright = 0
    /\ f.bg_color = DEFAULT => f.bg_bright = 0

\* the codes of the control code item name a foreground and a background and
\* hold neither 99 nor 109
ColourCodesOf(item) ==
    LET codes == item.codes
        n == Len(codes)
    IN  /\ n >= 3
        /\ codes[n - 1] \in (30..37) \cup {39} \cup (90..97)
        /\ codes[n] \in (40..47) \cup {49} \cup (100..107)
        /\ \A i \in 1..n : codes[i] \notin {99, 109}

\* C38: in every stack entry a foreground (background) that is DEFAULT has its
\* brightness flag cleared, and every control code written holds a foreground
\* code of 30..37, 39, 90..97 and a background code of 40..47, 49, 100..107;
\* 99 and 109 are never written.
C38_DefaultNeverBright ==
    /\ \A i \in 1..Len(trace) :
           \A k \in 1..Len(trace[i].format_stack_) :
               DefaultIsDull(trace[i].format_stack_[k])
    /\ \A i \in 1..Len(automaton.out) :
           IsAnsi(automaton.out[i]) => ColourCodesOf(automaton.out[i])

\* "{Rg--{d;--" : the default foreground pushed on bright red is not bright
C38_Witness ==
    /\ fed = <<"{", "R", "g", "-", "-", "{", COLOR_DEFAULT, COLOR_CURRENT, "-", "-">>
    /\ Before(5).format_stack_[2].fg_bright = 1
    /\ top(Before(0)).fg_color = DEFAULT
    /\ top(Before(0)).fg_bright = 0
    /\ LastWritten = <<Ansi(<<0, 39, 42>>)>>
(***************************************************************************)
(* Conservation: strip on, escape off, under the presets and the custom    *)
(* syntaxes; after nothing, after an open tag or after an open tag and one *)
(* character of text, MaxConserve characters among the delimiter           *)
(* characters, a colour letter, an ordinary character and the zero byte.   *)
(***************************************************************************)
ConserveChars(syntax) == DelimChars(syntax) \cup {"r", "x", NUL}

ConservePlans(syntax) ==
    {prefix \o Free(MaxConserve, ConserveChars(syntax)) :
        prefix \in {<<>>, OpenTag(syntax, <<{"r"}>>), OpenTag(syntax, <<{"r"}>>) \o <<{"x"}>>}}

InitConserve ==
    \E syntax \in ALL_STYLES \cup CustomSyntaxes :
        \E p \in ConservePlans(syntax) : Start(TRUE, FALSE, FALSE, syntax, p)

SpecConserve == InitConserve /\ [][Next]_vars

\* s without its last k characters
DropLast(s, k) == IF k >= Len(s) THEN <<>> ELSE SubSeq(s, 1, Len(s) - k)

\* the i-th character applied an open tag: a format was pushed
AppliesTag(i) == Depth(trace[i + 1]) > Depth(trace[i])

\* the i-th character completed a close delimiter that was honoured: a format
\* was popped
HonoursClose(i) == Depth(trace[i + 1]) < Depth(trace[i])

\* the length of the open tag the i-th character completes: the shortest end of
\* the first i characters that begins with the open delimiter and has room for
\* the terminator
TagLength(i) ==
    LET open == automaton.syntax_.open_tag
        lengths == {L \in (Len(open) + Len(automaton.syntax_.open_end))..i :
                        SubSeq(fed, i - L + 1, i - L + Len(open)) = open}
    IN  IF lengths = {} THEN 0
        ELSE CHOOSE L \in lengths : \A M \in lengths : L <= M

\* the first i characters of the input without the characters of the open tags
\* applied and of the close delimiters honoured so far
RECURSIVE Conserved(_)
Conserved(i) ==
    IF i = 0 THEN <<>>
    ELSE IF AppliesTag(i) THEN DropLast(Conserved(i - 1), TagLength(i) - 1)
    ELSE IF HonoursClose(i)
         THEN DropLast(Conserved(i - 1), Len(automaton.syntax_.close_tag) - 1)
    ELSE Append(Conserved(i - 1), fed[i])

NoZeroByte == \A i \in 1..Len(fed) : fed[i] # NUL

\* C39: with strip on and escape off the output of the destroyed automaton is
\* the input without the characters of the applied open tags and of the honoured
\* close delimiters: every other character is written once, in input order, also
\* when the input ends inside a partial delimiter or an unterminated tag body.
C39_LiteralConservation ==
    phase = "destroyed" /\ automaton.strip_ /\ ~automaton.escape_ =>
        automaton.out = Lits(Conserved(Len(fed)))

\* the failing case: under CLASSIC, after the tag {r-- the text x, a zero byte, x
\* is written as x x when the input ends
C39_Witness ==
    /\ phase = "destroyed"
    /\ automaton.strip_ /\ ~automaton.escape_
    /\ automaton.syntax_ = CLASSIC
    /\ fed = <<"{", "r", "-", "-", "x", NUL, "x">>
    /\ Conserved(Len(fed)) = <<"x", NUL, "x">>
    /\ automaton.out = <<Lit("x"), Lit("x")>>

\* what does hold: an input without a zero byte is conserved, and while the
\* automaton runs the characters not yet written are the ones it holds
C39_LiteralConservationNoNUL ==
    automaton.strip_ /\ ~automaton.escape_ /\ NoZeroByte =>
        IF phase = "destroyed"
        THEN automaton.out = Lits(Conserved(Len(fed)))
        ELSE automaton.out \o Lits(automaton.buffer_) = Lits(Conserved(Len(fed)))

\* the characters written as the n-th character was accepted
WrittenAt(n) == LitsOnly(SubSeq(trace[n + 1].out, Len(trace[n].out) + 1, Len(trace[n + 1].out)))

\* the n-th character made the automaton flush what it held and the character,
\* no tag applied, no close honoured, no escape involved
FlushesAt(n) ==
    /\ trace[n].state_ \notin {"PARSE_ESCAPE", "SKIP_WHITESPACE"}
    /\ ~(trace[n].escape_ /\ fed[n] = ESCAPE_CHAR)
    /\ Depth(trace[n + 1]) = Depth(trace[n])
    /\ trace[n + 1].state_ = "DEFAULT"
    /\ trace[n + 1].buffer_ = <<>>

\* C40: every flush writes the buffer in full, a zero byte in it included: the
\* characters written by an accept that flushes are the characters held before
\* and the accepted one, and the destructor writes all the characters held.
C40_ZeroBytePassed ==
    /\ \A n \in 1..Len(fed) :
           FlushesAt(n) => WrittenAt(n) = Lits(trace[n].buffer_ \o <<fed[n]>>)
    /\ phase = "destroyed" =>
           LitsOnly(automaton.out) = LitsOnly(Before(0).out) \o Lits(Before(0).buffer_)

\* the failing case: under CLASSIC the zero byte after the open delimiter ends the
\* tag; the buffer holds { and the zero byte, and only { is written
C40_Witness ==
    /\ automaton.syntax_ = CLASSIC
    /\ fed = <<"{", NUL>>
    /\ Before(1).buffer_ = <<"{">>
    /\ FlushesAt(2)
    /\ WrittenAt(2) = <<Lit("{")>>

\* what does hold: a flush writes the buffer up to its first zero byte
C40_FlushedUpToZeroByte ==
    /\ \A n \in 1..Len(fed) :
           FlushesAt(n) => WrittenAt(n) = Lits(c_str(trace[n].buffer_ \o <<fed[n]>>))
    /\ phase = "destroyed" =>
           LitsOnly(automaton.out) = LitsOnly(Before(0).out) \o Lits(c_str(Before(0).buffer_))

\* a zero byte is flushed by the accept that buffers it: no buffer holds one
\* between two accepts, so no character after a zero byte is lost with it
C40_ZeroByteNeverHeld ==
    \A n \in 1..Len(trace) : \A i \in 1..Len(trace[n].buffer_) : trace[n].buffer_[i] # NUL
====
